---- MODULE Spec2Model ----
(***************************************************************************)
(* A model of jenkins-job-linter: the configuration resolution of          *)
(* jenkins_job_linter/config.py, the rules of jenkins_job_linter/linters.py *)
(* and the evaluation engine of jenkins_job_linter/__init__.py.            *)
(*                                                                         *)
(* Python strings that the code takes apart (section names, rule names,    *)
(* option values, shell scripts) are sequences of one-character strings.   *)
(* Names that are only compared as a whole (option names, job names, XML   *)
(* tags, descriptions) are TLA+ strings.                                   *)
(***************************************************************************)
EXTENDS Naturals, Sequences, FiniteSets, TLC

\* ------------------------------------------------------------------------
\* Bounds of the model.

\* The longest batch (directory listing or job list) that is linted.
MaxDocs == 2

\* The largest registry (number of registered rules).
MaxLinters == 2

\* ------------------------------------------------------------------------
\* Python strings and values.

\* 'job_linter', the reserved section name and section-name prefix.
JOB_LINTER == <<"j", "o", "b", "_", "l", "i", "n", "t", "e", "r">>

\* The characters str.strip() removes (the ASCII whitespace TLA+ can write).
Whitespace == {" ", "\t", "\n", "\r", "\f"}

\* Python's None.
None == [t |-> "NoneType"]

\* A Python str with the characters s.
PyStr(s) == [t |-> "str", s |-> s]

\* A Python bool.
PyBool(b) == [t |-> "bool", b |-> b]

\* A Python list with the items l.
PyList(l) == [t |-> "list", l |-> l]

\* The empty dict (and the empty option mapping of a section).
EmptyDict == [o \in {} |-> None]

\* str.startswith(prefix).
startswith(s, prefix) ==
    /\ Len(prefix) <= Len(s)
    /\ SubSeq(s, 1, Len(prefix)) = prefix

\* str.strip(): leading and trailing whitespace removed.
RECURSIVE lstrip(_)
lstrip(s) ==
    IF s # <<>> /\ Head(s) \in Whitespace THEN lstrip(Tail(s)) ELSE s

RECURSIVE rstrip(_)
rstrip(s) ==
    IF s # <<>> /\ s[Len(s)] \in Whitespace
    THEN rstrip(SubSeq(s, 1, Len(s) - 1))
    ELSE s

strip(s) == rstrip(lstrip(s))

\* str.split(sep) for a one-character separator: the fields between the
\* separators, empty fields included; the empty string gives [''].
RECURSIVE split(_, _)
split(s, sep) ==
    IF \E i \in 1..Len(s) : s[i] = sep
    THEN LET i == CHOOSE j \in 1..Len(s) :
                      /\ s[j] = sep
                      /\ \A h \in 1..(j - 1) : s[h] # sep
         IN  <<SubSeq(s, 1, i - 1)>> \o split(SubSeq(s, i + 1, Len(s)), sep)
    ELSE <<s>>

\* The items of a list, each in the Python str form of str(list) ("'a'").
RECURSIVE repr_items(_)
repr_items(l) ==
    IF l = <<>> THEN <<>>
    ELSE <<"'">> \o l[1] \o <<"'">>
         \o (IF Len(l) > 1 THEN <<",", " ">> ELSE <<>>)
         \o repr_items(Tail(l))

\* str(value), as configparser.read_dict applies it to a value that is not
\* None.
str(v) ==
    CASE v.t = "str" -> v.s
      [] v.t = "bool" -> IF v.b THEN <<"T", "r", "u", "e">>
                                ELSE <<"F", "a", "l", "s", "e">>
      [] v.t = "list" -> <<"[">> \o repr_items(v.l) \o <<"]">>

\* A faulty variant of section_name: the rule's name without the prefix.
section_name_bare(linter_name) == linter_name

\* '{}:{}'.format(a, b) for two strings, and 'job_linter:{}'.format(name).
section_name(linter_name) == JOB_LINTER \o <<":">> \o linter_name

\* ------------------------------------------------------------------------
\* configparser.  A parser is [defaults, sections]: the options of its
\* DEFAULT section, and for each section name the options set in that
\* section.  A stored option value is None or a PyStr.  Option names are
\* lower case throughout the source, so optionxform (str.lower) leaves them
\* as they are; option values hold no '%', so interpolation leaves them as
\* they are.

\* configparser.DEFAULTSECT.
DEFAULTSECT == <<"D", "E", "F", "A", "U", "L", "T">>

\* ConfigParser(): no sections, no defaults.
NewParser == [defaults |-> EmptyDict, sections |-> [s \in {} |-> EmptyDict]]

\* The raised exceptions the model distinguishes.
NoOptionError == [t |-> "NoOptionError"]
ValueError == [t |-> "ValueError"]
AttributeError == [t |-> "AttributeError"]
TypeError == [t |-> "TypeError"]
KeyError == [t |-> "KeyError"]
IndexError == [t |-> "IndexError"]
Exceptions ==
    {NoOptionError, ValueError, AttributeError, TypeError, KeyError,
     IndexError}

\* parser.sections(): the section names, DEFAULT not among them.
sections(parser) == DOMAIN parser.sections

\* parser.has_option(section, option) for an existing section.
has_option(parser, section, option) ==
    \/ option \in DOMAIN parser.sections[section]
    \/ option \in DOMAIN parser.defaults

\* parser.get(section, option) for an existing section: the section's own
\* value, else the DEFAULT section's, else NoOptionError.
get(parser, section, option) ==
    IF option \in DOMAIN parser.sections[section]
    THEN parser.sections[section][option]
    ELSE IF option \in DOMAIN parser.defaults
         THEN parser.defaults[option]
         ELSE NoOptionError

\* dict(parser[section]): the options a section proxy shows, its own and the
\* DEFAULT section's, with the values get() returns.
proxy_items(parser, section) ==
    [o \in DOMAIN parser.sections[section] \cup DOMAIN parser.defaults |->
        get(parser, section, o)]

\* parser.items() of the mapping protocol: DEFAULT and every section, each
\* with its proxy.
parser_items(parser) ==
    [s \in sections(parser) \cup {DEFAULTSECT} |->
        IF s = DEFAULTSECT THEN parser.defaults
        ELSE proxy_items(parser, s)]

\* The value read_dict stores for a value of the dictionary.
stored(value) == IF value = None THEN None ELSE PyStr(str(value))

\* The options of a section after read_dict has set `keys` in it.
set_options(old, keys) ==
    [o \in DOMAIN old \cup DOMAIN keys |->
        IF o \in DOMAIN keys THEN stored(keys[o]) ELSE old[o]]

\* parser.read_dict(dictionary): every section of the dictionary is added if
\* it is missing, and every key is set in it; the keys of a section named
\* DEFAULT are set in the defaults.
read_dict(parser, dictionary) ==
    LET names == DOMAIN dictionary \ {DEFAULTSECT}
    IN  [defaults |->
            IF DEFAULTSECT \in DOMAIN dictionary
            THEN set_options(parser.defaults, dictionary[DEFAULTSECT])
            ELSE parser.defaults,
         sections |->
            [s \in sections(parser) \cup names |->
                set_options(
                    IF s \in sections(parser) THEN parser.sections[s]
                    ELSE EmptyDict,
                    IF s \in names THEN dictionary[s] ELSE EmptyDict)]]

\* parser.remove_section(section).
remove_section(parser, section) ==
    [parser EXCEPT !.sections =
        [s \in DOMAIN parser.sections \ {section} |-> parser.sections[s]]]

\* A faulty variant of commas_to_list: the items are not stripped.
commas_to_list_unstripped(value) ==
    IF value = None \/ value.s = <<>> THEN <<>>
    ELSE split(value.s, ",")

\* commas_to_list of getlist: the empty list for None and for '', else the
\* comma-separated items, each stripped.
commas_to_list(value) ==
    IF value = None \/ value.s = <<>> THEN <<>>
    ELSE LET items == split(value.s, ",")
         IN  [i \in 1..Len(items) |-> strip(items[i])]

\* GetListConfigParser.getlist(section, option) for an existing section: the
\* list, or NoOptionError.
getlist(parser, section, option) ==
    IF has_option(parser, section, option)
    THEN PyList(commas_to_list(get(parser, section, option)))
    ELSE NoOptionError
\* ------------------------------------------------------------------------
\* linters.py: results, documents and rules.

\* The members of the LintResult enum.  SKIP is given the value PASS has, and
\* an Enum member defined with the value of an earlier member is an alias of
\* it: LintResult.SKIP is the member LintResult.PASS.
PASS == [name |-> "PASS", value |-> TRUE]
FAIL == [name |-> "FAIL", value |-> FALSE]
SKIP == PASS

\* A LintCheckResult (result, text); a raised exception is the exception in
\* place of the result.
CheckResult(result, text) == [result |-> result, text |-> text]
Raise(exception) == [result |-> exception, text |-> None]

\* The registered rule classes.
PluginClasses ==
    {"EnsureTimestamps", "CheckEnvInject", "CheckJobReferences",
     "CheckForEmptyShell", "CheckShebang"}

\* The classes that derive from ShellBuilderLinter.
ShellBuilderLinters == {"CheckForEmptyShell", "CheckShebang"}

\* JobLinter.root_tag, which every registered class inherits.
root_tag(cls) == "project"

\* The class attribute default_config.
default_config(cls) ==
    CASE cls = "CheckEnvInject" ->
            [required_environment_settings |-> PyStr(<<>>)]
      [] cls = "CheckShebang" ->
            [allow_default_shebang |-> PyBool(TRUE),
             required_shell_options |-> PyStr(<<"e", "u", "x">>)]
      [] OTHER -> EmptyDict

\* The class attribute description.
description(cls) ==
    CASE cls = "EnsureTimestamps" ->
            <<"c", "h", "e", "c", "k", "i", "n", "g", " ", "f", "o", "r", " ",
            "t", "i", "m", "e", "s", "t", "a", "m", "p", "s">>
      [] cls = "CheckEnvInject" ->
            <<"c", "h", "e", "c", "k", "i", "n", "g", " ", "e", "n", "v", "i",
            "r", "o", "n", "m", "e", "n", "t", " ", "v", "a", "r",
            "i", "a", "b", "l", "e", " ", "i", "n", "j", "e", "c",
            "t", "i", "o", "n">>
      [] cls = "CheckJobReferences" ->
            <<"c", "h", "e", "c", "k", "i", "n", "g", " ", "j", "o", "b", " ",
            "r", "e", "f", "e", "r", "e", "n", "c", "e", "s">>
      [] cls = "CheckForEmptyShell" ->
            <<"c", "h", "e", "c", "k", "i", "n", "g", " ", "s", "h", "e", "l",
            "l", " ", "b", "u", "i", "l", "d", "e", "r", " ", "s",
            "h", "e", "l", "l", " ", "s", "c", "r", "i", "p", "t",
            "s", " ", "a", "r", "e", " ", "n", "o", "t", " ", "e",
            "m", "p", "t", "y">>
      [] cls = "CheckShebang" ->
            <<"c", "h", "e", "c", "k", "i", "n", "g", " ", "s", "h", "e", "b",
            "a", "n", "g", " ", "o", "f", " ", "s", "h", "e", "l",
            "l", " ", "b", "u", "i", "l", "d", "e", "r", "s">>

\* The class attribute _xpath.
xpath(cls) ==
    CASE cls = "EnsureTimestamps" ->
            "./buildWrappers/hudson.plugins.timestamper.TimestamperBuildWrapper"
      [] cls = "CheckEnvInject" ->
            "./properties/EnvInjectJobProperty/info/propertiesContent"
      [] cls = "CheckJobReferences" ->
            "./builders/hudson.plugins.parameterizedtrigger.TriggerBuilder/configs/*/projects"
      [] cls \in ShellBuilderLinters ->
            "./builders/hudson.tasks.Shell/command"

\* The paths the rules look up in a document.
XPaths == {xpath(cls) : cls \in PluginClasses}

\* A parsed document is its root tag and, for each path a rule looks up, the
\* text (None or a PyStr) of the elements at that path in document order.
\* tree.getroot().tag, tree.findall(path) and tree.find(path):
findall(tree, path) == tree.elements[path]
find(tree, path) ==
    IF tree.elements[path] = <<>> THEN None
    ELSE [t |-> "Element", text |-> tree.elements[path][1]]

\* The section proxy config['job_linter:<name>'] of a LintContext.
SectionProxy(parser, name) == [parser |-> parser, name |-> name]

\* A faulty variant of RunContext: only the first name is kept.
RunContext_first_name(object_names) ==
    [object_names |-> SubSeq(object_names, 1, 1)]

\* LintContext(config, run_ctx, tree) and RunContext(object_names).
RunContext(object_names) == [object_names |-> object_names]
LintContext(config, run_ctx, tree) ==
    [config |-> config, run_ctx |-> run_ctx, tree |-> tree]

\* proxy.getlist(option): the list, or the fallback None without the option.
proxy_getlist(proxy, option) ==
    IF has_option(proxy.parser, proxy.name, option)
    THEN PyList(commas_to_list(get(proxy.parser, proxy.name, option)))
    ELSE None

\* str.lower() on the letters of the boolean words.
lower(s) ==
    LET upper == <<"A", "E", "F", "L", "N", "O", "R", "S", "T", "U", "Y">>
        small == <<"a", "e", "f", "l", "n", "o", "r", "s", "t", "u", "y">>
    IN  [i \in 1..Len(s) |->
            IF \E j \in 1..Len(upper) : upper[j] = s[i]
            THEN small[CHOOSE j \in 1..Len(upper) : upper[j] = s[i]]
            ELSE s[i]]

\* RawConfigParser.BOOLEAN_STATES.
BooleanTrue ==
    {<<"1">>, <<"y", "e", "s">>, <<"t", "r", "u", "e">>, <<"o", "n">>}
BooleanFalse ==
    {<<"0">>, <<"n", "o">>, <<"f", "a", "l", "s", "e">>, <<"o", "f", "f">>}

\* A faulty variant of proxy_getboolean: every option is read as false.
proxy_getboolean_false(proxy, option) == PyBool(FALSE)

\* proxy.getboolean(option): the fallback None without the option; None has no
\* lower(); a word that is no boolean is a ValueError.
proxy_getboolean(proxy, option) ==
    IF ~has_option(proxy.parser, proxy.name, option) THEN None
    ELSE LET value == get(proxy.parser, proxy.name, option)
         IN  IF value = None THEN AttributeError
             ELSE IF lower(value.s) \in BooleanTrue THEN PyBool(TRUE)
             ELSE IF lower(value.s) \in BooleanFalse THEN PyBool(FALSE)
             ELSE ValueError

\* proxy[option]: KeyError without the option.
proxy_getitem(proxy, option) ==
    IF has_option(proxy.parser, proxy.name, option)
    THEN get(proxy.parser, proxy.name, option)
    ELSE KeyError

\* EnsureTimestamps.actual_check.
EnsureTimestamps_actual_check(ctx) ==
    IF find(ctx.tree, xpath("EnsureTimestamps")) # None
    THEN CheckResult(PASS, None)
    ELSE CheckResult(FAIL, None)

\* Where a for loop over a sequence stops: the first index whose flag is
\* TRUE, 0 when the loop runs to its end.
FirstIndex(flags) ==
    IF \E i \in 1..Len(flags) : flags[i]
    THEN CHOOSE i \in 1..Len(flags) :
            /\ flags[i]
            /\ \A h \in 1..(i - 1) : ~flags[h]
    ELSE 0

\* x in list.
InList(x, list) == \E i \in 1..Len(list) : list[i] = x

\* A faulty variant of check_properties: a setting is looked for anywhere in
\* the text, not among its lines.
check_properties_in_text(properties_content, required_environment_settings) ==
    LET missing ==
            [n \in 1..Len(required_environment_settings) |->
                LET setting == required_environment_settings[n]
                IN  ~\E i \in 1..(Len(properties_content) - Len(setting) + 1) :
                        SubSeq(properties_content, i, i + Len(setting) - 1)
                            = setting]
        i == FirstIndex(missing)
    IN  IF i # 0
        THEN CheckResult(FAIL, PyStr(<<"D", "i", "d", " ", "n", "o", "t", " ", "f", "i", "n", "d", " ">>
                                     \o required_environment_settings[i]))
        ELSE CheckResult(PASS, None)

\* CheckEnvInject._check_properties.
check_properties(properties_content, required_environment_settings) ==
    LET configured_properties == split(properties_content, "\n")
        missing ==
            [n \in 1..Len(required_environment_settings) |->
                ~InList(required_environment_settings[n],
                        configured_properties)]
        i == FirstIndex(missing)
    IN  IF i # 0
        THEN CheckResult(FAIL, PyStr(<<"D", "i", "d", " ", "n", "o", "t", " ", "f", "i", "n", "d", " ">>
                                     \o required_environment_settings[i]))
        ELSE CheckResult(PASS, None)

\* CheckEnvInject.actual_check.
CheckEnvInject_actual_check(ctx) ==
    LET required_environment_settings ==
            proxy_getlist(ctx.config, "required_environment_settings")
        properties_content == find(ctx.tree, xpath("CheckEnvInject"))
    IN  IF required_environment_settings = None
           \/ required_environment_settings.l = <<>>
        THEN CheckResult(SKIP, None)
        ELSE IF properties_content = None
        THEN CheckResult(FAIL,
                 PyStr(<<"I", "n", "j", "e", "c", "t", "i", "o", "n", " ", "u", "n", "e",
                      "x", "p", "e", "c", "t", "e", "d", "l", "y",
                      " ", "u", "n", "c", "o", "n", "f", "i", "g",
                      "u", "r", "e", "d">>))
        ELSE IF properties_content.text = None
        THEN CheckResult(FAIL, PyStr(<<"I", "n", "j", "e", "c", "t", "e", "d", " ", "p", "r", "o", "p",
                "e", "r", "t", "i", "e", "s", " ", "e", "m", "p",
                "t", "y">>))
        ELSE check_properties(properties_content.text.s,
                              required_environment_settings.l)

\* CheckJobReferences.actual_check.
CheckJobReferences_actual_check(ctx) ==
    LET project_nodes == findall(ctx.tree, xpath("CheckJobReferences"))
        bad ==
            [n \in 1..Len(project_nodes) |->
                \/ project_nodes[n] = None
                \/ ~InList(project_nodes[n].s, ctx.run_ctx.object_names)]
        i == FirstIndex(bad)
    IN  IF i = 0 THEN CheckResult(PASS, None)
        ELSE IF project_nodes[i] = None
        THEN CheckResult(FAIL, PyStr(<<"N", "o", " ", "r", "e", "f", "e", "r", "e", "n", "c", "e", " ",
                "c", "o", "n", "f", "i", "g", "u", "r", "e", "d">>))
        ELSE CheckResult(FAIL,
                 PyStr(<<"R", "e", "f", "e", "r", "e", "n", "c", "e", " ", "t", "o", " ",
                      "m", "i", "s", "s", "i", "n", "g", " ", "o",
                      "b", "j", "e", "c", "t", " ">>
                       \o project_nodes[i].s))
\* A faulty variant of CheckForEmptyShell_shell_check: every shell builder
\* passes.
CheckForEmptyShell_shell_check_pass(ctx, shell_script) ==
    CheckResult(PASS, None)

\* CheckForEmptyShell.shell_check.
CheckForEmptyShell_shell_check(ctx, shell_script) ==
    IF shell_script = None THEN CheckResult(FAIL, None)
    ELSE CheckResult(PASS, None)

\* The characters [a-z] of the two regular expressions.
LowerCase ==
    {"a", "b", "c", "d", "e", "f", "g", "h", "i", "j", "k", "l", "m", "n",
     "o", "p", "q", "r", "s", "t", "u", "v", "w", "x", "y", "z"}

\* The line boundaries of str.splitlines() (those TLA+ can write).
LineBoundaries == {"\n", "\r", "\f"}

\* shell_script.splitlines()[0]: the characters before the first line
\* boundary; the empty string has no lines, and [0] is an IndexError.
first_line_of(shell_script) ==
    LET boundary ==
            [n \in 1..Len(shell_script) |->
                shell_script[n] \in LineBoundaries]
        i == FirstIndex(boundary)
    IN  IF shell_script = <<>> THEN IndexError
        ELSE IF i = 0 THEN PyStr(shell_script)
        ELSE PyStr(SubSeq(shell_script, 1, i - 1))

\* re.match(r'#!/bin/[a-z]*sh', first_line) is not None.
is_shell_shebang(first_line) ==
    LET prefix == <<"#", "!", "/", "b", "i", "n", "/">>
    IN  /\ startswith(first_line, prefix)
        /\ \E j \in (Len(prefix) + 1)..(Len(first_line) - 1) :
              /\ first_line[j] = "s"
              /\ first_line[j + 1] = "h"
              /\ \A h \in (Len(prefix) + 1)..(j - 1) :
                    first_line[h] \in LowerCase

\* The group of re.match(r'-([a-z]+)', part): the lower-case letters that
\* follow a leading dash, None when the part does not match.
shell_options_match(part) ==
    LET rest == IF part = <<>> THEN <<>> ELSE Tail(part)
        other == [n \in 1..Len(rest) |-> rest[n] \notin LowerCase]
        i == FirstIndex(other)
    IN  IF part = <<>> \/ part[1] # "-" \/ rest = <<>> \/ i = 1 THEN None
        ELSE IF i = 0 THEN PyStr(rest)
        ELSE PyStr(SubSeq(rest, 1, i - 1))

\* set(string): the characters of a string.
CharSet(s) == {s[i] : i \in 1..Len(s)}

\* CheckShebang._check_shell_shebang.
check_shell_shebang(required_shell_options_set, first_line) ==
    LET line_parts == split(first_line, " ")
    IN  IF Len(line_parts) < 2 THEN FALSE
        ELSE LET group == shell_options_match(line_parts[2])
             IN  IF group = None THEN FALSE
                 ELSE required_shell_options_set \subseteq CharSet(group.s)

\* A faulty variant of handle_jenkins_default: the default shebang is always
\* allowed.
handle_jenkins_default_skips(ctx) == CheckResult(SKIP, None)

\* CheckShebang._handle_jenkins_default.
handle_jenkins_default(ctx) ==
    LET allow == proxy_getboolean(ctx.config, "allow_default_shebang")
    IN  IF allow \in Exceptions THEN Raise(allow)
        ELSE IF allow = PyBool(TRUE) THEN CheckResult(SKIP, None)
        ELSE CheckResult(FAIL, PyStr(<<"S", "h", "e", "b", "a", "n", "g", " ", "i", "s", " ", "J", "e",
                "n", "k", "i", "n", "s", "'", " ", "d", "e", "f",
                "a", "u", "l", "t">>))

\* CheckShebang.shell_check.
CheckShebang_shell_check(ctx, shell_script) ==
    IF shell_script = None THEN CheckResult(SKIP, None)
    ELSE LET line == first_line_of(shell_script.s)
             first_line == line.s
             required == proxy_getitem(ctx.config, "required_shell_options")
         IN  IF line = IndexError THEN Raise(IndexError)
             ELSE IF ~startswith(first_line, <<"#", "!">>)
             THEN handle_jenkins_default(ctx)
             ELSE IF ~is_shell_shebang(first_line)
             THEN CheckResult(SKIP, None)
             ELSE IF required = KeyError THEN Raise(KeyError)
             ELSE IF required = None THEN Raise(TypeError)
             ELSE IF CharSet(required.s) = {}
             THEN CheckResult(PASS, None)
             ELSE IF ~check_shell_shebang(CharSet(required.s), first_line)
             THEN CheckResult(FAIL, PyStr(<<"S", "h", "e", "b", "a", "n", "g", " ", "i", "s", " ">> \o first_line))
             ELSE CheckResult(PASS, None)

\* self.shell_check of a ShellBuilderLinter subclass.
shell_check(cls, ctx, shell_script) ==
    CASE cls = "CheckForEmptyShell" ->
            CheckForEmptyShell_shell_check(ctx, shell_script)
      [] cls = "CheckShebang" ->
            CheckShebang_shell_check(ctx, shell_script)

\* A faulty variant of ShellBuilderLinter_actual_check: only the first shell
\* builder is checked.
ShellBuilderLinter_actual_check_first(cls, ctx) ==
    LET shell_builders == findall(ctx.tree, xpath(cls))
    IN  IF shell_builders = <<>> THEN CheckResult(SKIP, None)
        ELSE LET r == shell_check(cls, ctx, shell_builders[1])
             IN  IF r.result = FAIL \/ r.result \in Exceptions THEN r
                 ELSE CheckResult(PASS, None)

\* ShellBuilderLinter.actual_check: SKIP without shell builders, else the
\* result of the first shell_check that fails (or the exception of the first
\* one that raises, when no earlier one fails), else PASS.
ShellBuilderLinter_actual_check(cls, ctx) ==
    LET shell_builders == findall(ctx.tree, xpath(cls))
        stops ==
            [n \in 1..Len(shell_builders) |->
                LET r == shell_check(cls, ctx, shell_builders[n])
                IN  r.result = FAIL \/ r.result \in Exceptions]
        i == FirstIndex(stops)
    IN  IF shell_builders = <<>> THEN CheckResult(SKIP, None)
        ELSE IF i # 0 THEN shell_check(cls, ctx, shell_builders[i])
        ELSE CheckResult(PASS, None)

\* self.actual_check() of a registered class.
actual_check(cls, ctx) ==
    CASE cls = "EnsureTimestamps" -> EnsureTimestamps_actual_check(ctx)
      [] cls = "CheckEnvInject" -> CheckEnvInject_actual_check(ctx)
      [] cls = "CheckJobReferences" -> CheckJobReferences_actual_check(ctx)
      [] cls \in ShellBuilderLinters ->
            ShellBuilderLinter_actual_check(cls, ctx)

\* A faulty variant of check: the root tag is not looked at.
check_any_root(cls, ctx) ==
    [ret |-> actual_check(cls, ctx), called |-> <<"actual_check">>]

\* Linter.check: SKIP for a document whose root tag is not the class's
\* root_tag, else what actual_check returns.  `called` lists the methods
\* check() called.
check(cls, ctx) ==
    IF ctx.tree.tag # root_tag(cls)
    THEN [ret |-> CheckResult(SKIP, None), called |-> <<>>]
    ELSE [ret |-> actual_check(cls, ctx), called |-> <<"actual_check">>]
\* ------------------------------------------------------------------------
\* The state of one run of lint_jobs_from_directory or
\* lint_jobs_from_running_jenkins.

VARIABLES
    LINTERS,          \* linters.LINTERS: the registry, in iteration order
    config_defaults,  \* config.GLOBAL_CONFIG_DEFAULTS when the run starts
    entry,            \* "directory" or "jenkins": the batch function called
                      \* ("none" while none is)
    config,           \* the caller's ConfigParser, the argument `config`
    filtered_config,  \* the local `config` once _filter_config returned
    object_names,     \* `filenames` / `job_names`
    pc,               \* where the run is
    job,              \* how many names the for loop has taken
    tree,             \* the document of the current lint_job_xml call
    linter,           \* how many rules lint_job_xml's for loop has taken
    job_success,      \* `success` of the current lint_job_xml call
    success,          \* `success` of the batch function
    calls,            \* the rules instantiated by the current lint_job_xml,
                      \* each with the LintContext it was given
    results,          \* what each lint_job_xml call returned, in order
    output,           \* the lines printed so far
    argv,             \* the command line of the process, None without one
    exit_code,        \* the exit code of the process, None while it runs
    subcommand,       \* LintSubCommand.execute: its options, jjb_config and
                      \* tmpdir, and the calls it has made; None in a
                      \* process that does not run it
    args,             \* a single call of a function or method: its arguments
    ret               \* what that call returned, None before it returns

vars ==
    <<LINTERS, config_defaults, entry, config, filtered_config,
      object_names, pc, job, tree, linter, job_success, success, calls,
      results, output, argv, exit_code, subcommand, args, ret>>

\* The variables of the process (the command line entry points), and those of
\* a single call.
process_vars == <<argv, exit_code, subcommand>>
call_vars == <<args, ret>>

\* config.GLOBAL_CONFIG_DEFAULTS.
GLOBAL_CONFIG_DEFAULTS ==
    [disable_linters |-> PyList(<<>>), only_run |-> None]

\* GetListConfigParser(allow_no_value=True).
GetListConfigParser == NewParser

\* A faulty variant of _get_default_linter_configs: the sections are named after
\* the rules, without the 'job_linter:' prefix.
_get_default_linter_configs_bare ==
    [s \in {LINTERS[i].name : i \in DOMAIN LINTERS} |->
        LET i == CHOOSE i \in DOMAIN LINTERS : LINTERS[i].name = s
        IN  default_config(LINTERS[i].plugin)]

\* config._get_default_linter_configs.
_get_default_linter_configs ==
    [s \in {section_name(LINTERS[i].name) : i \in DOMAIN LINTERS} |->
        LET i == CHOOSE i \in DOMAIN LINTERS :
                    section_name(LINTERS[i].name) = s
        IN  default_config(LINTERS[i].plugin)]

\* A faulty variant of keeps_section: no section is removed.
keeps_section_all(section) == TRUE

\* A faulty variant of keeps_section: only the section 'job_linter' itself stays, and
\* the sections of the rules.
keeps_section_exact(section) ==
    section = JOB_LINTER \/ startswith(section, JOB_LINTER \o <<":">>)

\* The test of _filter_config's loop: a section stays when its name starts
\* with 'job_linter'.
keeps_section(section) == startswith(section, JOB_LINTER)

\* The loop of _filter_config over the sections in `todo`.
RECURSIVE remove_sections(_, _)
remove_sections(parser, todo) ==
    IF todo = {} THEN parser
    ELSE LET section == CHOOSE s \in todo : TRUE
         IN  remove_sections(
                 IF keeps_section(section) THEN parser
                 ELSE remove_section(parser, section),
                 todo \ {section})

\* A faulty variant of _filter_config: the defaults are read into the caller's
\* parser and the sections are removed from it.
_filter_config_in_place(passed_config) ==
    LET defaults == read_dict(passed_config,
                              [s \in {JOB_LINTER} |-> config_defaults])
        merged == read_dict(defaults, _get_default_linter_configs)
        filtered == remove_sections(merged, sections(merged))
    IN  [returned |-> filtered, passed |-> filtered]

\* A faulty variant of _filter_config: the caller's configuration is read first and
\* the defaults after it.
_filter_config_defaults_last(passed_config) ==
    LET user == read_dict(GetListConfigParser, parser_items(passed_config))
        defaults == read_dict(user, [s \in {JOB_LINTER} |-> config_defaults])
        merged == read_dict(defaults, _get_default_linter_configs)
    IN  [returned |-> remove_sections(merged, sections(merged)),
         passed |-> passed_config]

\* config._filter_config(config): `returned` is the new parser, `passed` is
\* the caller's parser as the call leaves it.
_filter_config(passed_config) ==
    LET defaults == read_dict(GetListConfigParser,
                              [s \in {JOB_LINTER} |-> config_defaults])
        linter_defaults == read_dict(defaults, _get_default_linter_configs)
        merged == read_dict(linter_defaults, parser_items(passed_config))
    IN  [returned |-> remove_sections(merged, sections(merged)),
         passed |-> passed_config]

\* s contains n as a substring (`n in s` for two strings).
Contains(s, n) ==
    \E i \in 1..(Len(s) - Len(n) + 1) : SubSeq(s, i, i + Len(n) - 1) = n

\* A faulty variant of is_disabled: the name is looked for in the option's string,
\* not in the list of its items.
is_disabled_in_string(parser, linter_name) ==
    LET value == get(parser, JOB_LINTER, "disable_linters")
    IN  value # None /\ Contains(value.s, linter_name)

\* A faulty variant of is_disabled: a name listed in only_run is never disabled.
is_disabled_unless_only_run(parser, linter_name) ==
    /\ InList(linter_name,
              getlist(parser, JOB_LINTER, "disable_linters").l)
    /\ ~InList(linter_name, getlist(parser, JOB_LINTER, "only_run").l)

\* `linter_name in config.getlist('job_linter', 'disable_linters')`.
is_disabled(parser, linter_name) ==
    InList(linter_name, getlist(parser, JOB_LINTER, "disable_linters").l)

\* `only_run and linter_name not in only_run`.
is_excluded(parser, linter_name) ==
    LET only_run == getlist(parser, JOB_LINTER, "only_run").l
    IN  only_run # <<>> /\ ~InList(linter_name, only_run)

\* LintResult.value: whether the result counts as a success.
result_value(result) == result.value

\* A faulty variant of failed_so_far: the last check decides.
failed_so_far_last_check(job_success_now, result) == result_value(result)

\* `if not result.value: success = False` of lint_job_xml: `success` after a
\* check that returned `result`.
failed_so_far(job_success_now, result) ==
    IF ~result_value(result) THEN FALSE ELSE job_success_now

\* A faulty variant of next_linter: the loop is left at the first failed check.
next_linter_break(linter_now, result) ==
    IF ~result_value(result) THEN Len(LINTERS) ELSE linter_now + 1

\* The for loop of lint_job_xml after a check that returned `result`: the
\* next item of LINTERS is taken whatever the result was.
next_linter(linter_now, result) == linter_now + 1

\* A faulty variant of failure_line: the detail is left out.
failure_line_without_text(job_name, plugin, text) ==
    job_name \o <<":", " ">> \o description(plugin)
    \o <<":", " ", "F", "A", "I", "L">>

\* The line lint_job_xml prints for a failed check.
failure_line(job_name, plugin, text) ==
    job_name \o <<":", " ">> \o description(plugin)
    \o <<":", " ", "F", "A", "I", "L">>
    \o (IF text # None THEN <<":", " ">> \o text.s ELSE <<>>)

\* A faulty variant of and_result: the last document decides.
and_result_last(batch_success, result) == result

\* `success = success and result` of the batch functions.
and_result(batch_success, result) == batch_success /\ result

\* ------------------------------------------------------------------------
\* The inputs of a run.

\* Rule names.
NameDo == <<"d", "o">>
NameDont == <<"d", "o", "n", "t">>
NameRefs == <<"r", "e", "f", "s">>
NameEnv == <<"e", "n", "v">>
NameShebang == <<"s", "b">>

\* The entry points a registry is made of.
Extensions ==
    {[name |-> NameDo, plugin |-> "EnsureTimestamps"],
     [name |-> NameDont, plugin |-> "CheckForEmptyShell"],
     [name |-> NameRefs, plugin |-> "CheckJobReferences"],
     [name |-> NameEnv, plugin |-> "CheckEnvInject"],
     [name |-> NameShebang, plugin |-> "CheckShebang"]}

\* The registries: up to MaxLinters entry points, in any order.
Registries ==
    {r \in UNION {[1..n -> Extensions] : n \in 0..MaxLinters} :
        \A i, j \in DOMAIN r : i # j => r[i].name # r[j].name}

\* The names of a batch of n jobs.
JobNames == <<"a", "b", "c", "d", "e", "f", "g", "h">>
Batch(n) == [i \in 1..n |-> <<JobNames[i]>>]
Batches == {Batch(n) : n \in 0..MaxDocs}

\* A document: its root tag and the texts at the four paths.
Tree(tag, wrappers, properties, projects, commands) ==
    [tag |-> tag,
     elements |->
        [p \in XPaths |->
            CASE p = xpath("EnsureTimestamps") -> wrappers
              [] p = xpath("CheckEnvInject") -> properties
              [] p = xpath("CheckJobReferences") -> projects
              [] p = xpath("CheckShebang") -> commands]]

\* The documents a parse can give.
Trees ==
    {Tree("project", <<None>>, <<PyStr(<<"A", "=", "1", "\n", "B", "=", "2">>)>>, <<>>,
          <<PyStr(<<"#", "!", "/", "b", "i", "n", "/", "s", "h", " ", "-", "e", "u",
        "x", "\n", "e", "c", "h", "o">>)>>),
     Tree("project", <<>>, <<>>, <<PyStr(<<"b">>)>>, <<>>),
     Tree("project", <<None>>, <<None>>, <<None>>,
          <<None, PyStr(<<"e", "c", "h", "o", " ", "h", "i">>)>>),
     Tree("matrix-project", <<>>, <<>>, <<None>>, <<None>>),
     Tree("project", <<None>>, <<PyStr(<<"A", "=", "1">>)>>, <<PyStr(<<"a">>)>>,
          <<PyStr(<<"#", "!", "/", "b", "i", "n", "/", "b", "a", "s", "h", " ", "-",
        "e", "u">>),
            PyStr(<<"#", "!", "/", "u", "s", "r", "/", "b", "i", "n", "/", "e", "n",
        "v", " ", "p", "y", "t", "h", "o", "n">>)>>)}

\* A caller's parser with the given DEFAULT options and sections.
Parser(defaults, sects) == [defaults |-> defaults, sections |-> sects]

\* Section names of configuration files.
SectionThing == JOB_LINTER \o <<"-", "t", "h", "i", "n", "g">>
SectionLinter == section_name(<<"l", "i", "n", "t", "e", "r">>)
SectionJenkins == <<"j", "e", "n", "k", "i", "n", "s">>
SectionJenkinsJobs == <<"j", "e", "n", "k", "i", "n", "s", "_", "j", "o", "b", "s">>

\* The configurations a batch is run with.
UserConfigs ==
    {Parser(EmptyDict, [s \in {} |-> EmptyDict]),
     Parser(EmptyDict,
            (JOB_LINTER :>
                [disable_linters |-> PyStr(<<"d", "o", "n", "t", ",", "a", "n", "o", "t", "h", "e", "r">>)])
            @@ (SectionJenkins :> [user |-> PyStr(<<"x">>)])),
     Parser(EmptyDict,
            (JOB_LINTER :> [only_run |-> PyStr(<<"d", "o", "n", "t">>)])
            @@ (SectionThing :> EmptyDict)),
     Parser(EmptyDict,
            (JOB_LINTER :>
                [disable_linters |-> PyStr(<<"d", "o">>),
                 only_run |-> PyStr(<<"d", "o", ",", " ", "d", "o", "n", "t", " ", ",", "s", "b">>)])),
     Parser([k |-> PyStr(<<"v">>)],
            (JOB_LINTER :> [disable_linters |-> PyStr(<<>>)])
            @@ (section_name(NameEnv) :>
                [required_environment_settings |-> PyStr(<<"A", "=", "1", ",", " ", "C", "=", "3">>)])
            @@ (section_name(NameShebang) :>
                [allow_default_shebang |-> PyStr(<<"n", "o">>),
                 required_shell_options |-> PyStr(<<>>)])
            @@ (SectionJenkinsJobs :> EmptyDict)),
     Parser(EmptyDict,
            (section_name(NameShebang) :>
                [allow_default_shebang |-> PyStr(<<"m", "a", "y", "b", "e">>)])
            @@ (SectionLinter :> EmptyDict))}

\* The configurations _filter_config is applied to: each of these sections
\* is absent or has one of the option mappings listed for it.
Absent == [absent |-> TRUE]
Sect(name, options) ==
    IF options = Absent THEN [s \in {} |-> EmptyDict] ELSE name :> options
ConfigFiles ==
    {Parser(d, Sect(JOB_LINTER, a) @@ Sect(section_name(NameDo), b)
               @@ Sect(section_name(NameShebang), c) @@ Sect(SectionThing, e)
               @@ Sect(SectionLinter, f) @@ Sect(SectionJenkins, g)) :
        d \in {EmptyDict, [k |-> PyStr(<<"d">>)]},
        a \in {Absent, EmptyDict, [disable_linters |-> PyStr(NameDo)],
               [only_run |-> None, test |-> PyStr(<<"t", "h", "a", "t">>)]},
        b \in {Absent, [k |-> PyStr(<<"v">>)]},
        c \in {Absent, [required_shell_options |-> PyStr(<<"e">>)]},
        e \in {Absent, EmptyDict},
        f \in {Absent, EmptyDict},
        g \in {Absent, [user |-> PyStr(<<"x">>)]}}

\* The values tests give config.GLOBAL_CONFIG_DEFAULTS, and its own.
ConfigDefaults ==
    {GLOBAL_CONFIG_DEFAULTS, EmptyDict, [test |-> PyStr(<<"t", "h", "i", "s">>)]}

\* ------------------------------------------------------------------------
\* The run.

TypeOK ==
    /\ pc \in {"start", "list", "loop", "lint", "done", "raised", "cli",
              "main", "exited", "call", "returned", "execute", "compile",
              "compiled"}
    /\ entry \in {"directory", "jenkins", "none"}
    /\ job \in 0..Len(JobNames)
    /\ linter \in 0..Len(LINTERS)
    /\ job_success \in BOOLEAN
    /\ success \in BOOLEAN

\* The state in which a batch function is called with `config`.
Called(registries, defaults, configs) ==
    /\ LINTERS \in registries
    /\ config_defaults \in defaults
    /\ entry \in {"directory", "jenkins"}
    /\ config \in configs
    /\ filtered_config = None
    /\ object_names = <<>>
    /\ pc = "start"
    /\ job = 0
    /\ tree = None
    /\ linter = 0
    /\ job_success = FALSE
    /\ success = FALSE
    /\ calls = <<>>
    /\ results = <<>>
    /\ output = <<>>
    /\ argv = None
    /\ exit_code = None
    /\ subcommand = None
    /\ args = None
    /\ ret = None

Init == Called(Registries, {GLOBAL_CONFIG_DEFAULTS}, UserConfigs)

\* `config = _filter_config(config)`: the local name is bound to the new
\* parser.
FilterConfig ==
    /\ pc = "start"
    /\ LET call == _filter_config(config)
       IN  /\ filtered_config' = call.returned
           /\ config' = call.passed
    /\ pc' = "list"
    /\ UNCHANGED <<LINTERS, config_defaults, entry, object_names, job, tree,
                   linter, job_success, success, calls, results, output>>
    /\ UNCHANGED <<process_vars, call_vars>>

\* `success = True` and the listing: os.listdir(compiled_job_directory), or
\* the names of server.get_jobs().
ListJobs ==
    /\ pc = "list"
    /\ success' = TRUE
    /\ object_names' \in Batches
    /\ pc' = "loop"
    /\ UNCHANGED <<LINTERS, config_defaults, entry, config, filtered_config,
                   job, tree, linter, job_success, calls, results, output>>
    /\ UNCHANGED <<process_vars, call_vars>>

\* The for loop takes the next name, the document is parsed
\* (ElementTree.parse, or ElementTree.fromstring of get_job_config) and
\* lint_job_xml is entered: `success = True`.
ParseJob ==
    /\ pc = "loop"
    /\ job < Len(object_names)
    /\ job' = job + 1
    /\ tree' \in Trees
    /\ job_success' = TRUE
    /\ linter' = 0
    /\ calls' = <<>>
    /\ pc' = "lint"
    /\ UNCHANGED <<LINTERS, config_defaults, entry, config, filtered_config,
                   object_names, success, results, output>>
    /\ UNCHANGED <<process_vars, call_vars>>

\* A faulty variant of ParseError: the error is swallowed and the loop goes
\* on with the next name.
ParseError_swallowed ==
    /\ pc = "loop"
    /\ job < Len(object_names)
    /\ job' = job + 1
    /\ results' = Append(results, FALSE)
    /\ success' = FALSE
    /\ UNCHANGED <<LINTERS, config_defaults, entry, config, filtered_config,
                   object_names, pc, tree, linter, job_success, calls,
                   output, argv, exit_code, subcommand, args,
                   ret>>

\* The for loop takes the next name and parsing its document raises: the
\* batch function does not catch it.
ParseError ==
    /\ pc = "loop"
    /\ job < Len(object_names)
    /\ job' = job + 1
    /\ pc' = "raised"
    /\ UNCHANGED <<LINTERS, config_defaults, entry, config, filtered_config,
                   object_names, tree, linter, job_success, success, calls,
                   results, output>>
    /\ UNCHANGED <<process_vars, call_vars>>

\* One iteration of lint_job_xml's for loop over LINTERS.items().
LintStep ==
    /\ pc = "lint"
    /\ linter < Len(LINTERS)
    /\ LET linter_name == LINTERS[linter + 1].name
           plugin == LINTERS[linter + 1].plugin
           name == section_name(linter_name)
           ctx == LintContext(SectionProxy(filtered_config, name),
                              RunContext(object_names), tree)
           checked == check(plugin, ctx)
           call == [linter |-> linter + 1, ctx |-> ctx, ret |-> checked.ret,
                    called |-> checked.called]
       IN  IF \/ ~has_option(filtered_config, JOB_LINTER, "disable_linters")
              \/ /\ ~is_disabled(filtered_config, linter_name)
                 /\ ~has_option(filtered_config, JOB_LINTER, "only_run")
           THEN \* config.getlist raises NoOptionError
                /\ pc' = "raised"
                /\ linter' = linter + 1
                /\ UNCHANGED <<job_success, calls, output>>
           ELSE IF \/ is_disabled(filtered_config, linter_name)
                   \/ is_excluded(filtered_config, linter_name)
           THEN \* continue
                /\ linter' = linter + 1
                /\ UNCHANGED <<pc, job_success, calls, output>>
           ELSE IF name \notin sections(filtered_config)
           THEN \* config[...] raises KeyError
                /\ pc' = "raised"
                /\ linter' = linter + 1
                /\ UNCHANGED <<job_success, calls, output>>
           ELSE IF checked.ret.result \in Exceptions
           THEN \* check() raises
                /\ pc' = "raised"
                /\ linter' = linter + 1
                /\ calls' = Append(calls, call)
                /\ UNCHANGED <<job_success, output>>
           ELSE /\ calls' = Append(calls, call)
                /\ pc' = pc
                /\ linter' = next_linter(linter, checked.ret.result)
                /\ job_success' = failed_so_far(job_success,
                                                checked.ret.result)
                /\ IF ~result_value(checked.ret.result)
                   THEN /\ output' =
                              Append(output,
                                     failure_line(object_names[job], plugin,
                                                  checked.ret.text))
                   ELSE UNCHANGED output
    /\ UNCHANGED <<LINTERS, config_defaults, entry, config, filtered_config,
                   object_names, job, tree, success, results>>
    /\ UNCHANGED <<process_vars, call_vars>>

\* lint_job_xml returns `success`, and the batch function folds it in:
\* `success = success and result`.
ReturnJob ==
    /\ pc = "lint"
    /\ linter = Len(LINTERS)
    /\ results' = Append(results, job_success)
    /\ success' = and_result(success, job_success)
    /\ pc' = "loop"
    /\ UNCHANGED <<LINTERS, config_defaults, entry, config, filtered_config,
                   object_names, job, tree, linter, job_success, calls,
                   output>>
    /\ UNCHANGED <<process_vars, call_vars>>

\* The for loop is over: `return success`.
Return ==
    /\ pc = "loop"
    /\ job = Len(object_names)
    /\ pc' = "done"
    /\ UNCHANGED <<LINTERS, config_defaults, entry, config, filtered_config,
                   object_names, job, tree, linter, job_success, success,
                   calls, results, output>>
    /\ UNCHANGED <<process_vars, call_vars>>

Next ==
    \/ FilterConfig
    \/ ListJobs
    \/ ParseJob
    \/ ParseError
    \/ LintStep
    \/ ReturnJob
    \/ Return

Spec == Init /\ [][Next]_vars

\* _filter_config alone, applied to every configuration of ConfigFiles under
\* every value of GLOBAL_CONFIG_DEFAULTS.
InitConfig == Called(Registries, ConfigDefaults, ConfigFiles)

NextConfig == FilterConfig

SpecConfig == InitConfig /\ [][NextConfig]_vars
\* ------------------------------------------------------------------------
\* Properties.

\* A lint_job_xml call has just returned to the batch function.
JobReturned == pc = "loop" /\ job > 0 /\ Len(results) = job

\* The items of the two filter options of the effective configuration.
DisableLinters == getlist(filtered_config, JOB_LINTER, "disable_linters").l
OnlyRun == getlist(filtered_config, JOB_LINTER, "only_run").l

\* The name is, character for character, an item of the list.
Listed(name, list) == \E i \in DOMAIN list : list[i] = name

\* The rule at position k of the registry passes both filters.
PassesFilters(k) ==
    /\ ~Listed(LINTERS[k].name, DisableLinters)
    /\ OnlyRun = <<>> \/ Listed(LINTERS[k].name, OnlyRun)

\* The rule at position k was instantiated by the current lint_job_xml call.
Ran(k) == \E i \in DOMAIN calls : calls[i].linter = k

\* C1: lint_job_xml returns false if and only if a rule that it ran (one
\* that the filters let through) returned FAIL; with PASS and SKIP results
\* only, or with no rule run, it returns true.
C1_DocumentFailsIffARuleFails ==
    JobReturned =>
        (results[job] = FALSE
            <=> \E i \in DOMAIN calls : calls[i].ret.result = FAIL)

\* C1 witness: a call returned false after a rule failed and a later rule
\* passed.
C1_Witness ==
    /\ JobReturned
    /\ results[job] = FALSE
    /\ \E i, j \in DOMAIN calls :
          /\ i < j
          /\ calls[i].ret.result = FAIL
          /\ calls[j].ret.result = PASS

\* C2: a rule that lint_job_xml instantiates is not named in disable_linters
\* (whether or not only_run names it too), and when only_run is not empty it
\* is named in only_run.
C2_OnlyUnfilteredRulesRun ==
    \A i \in DOMAIN calls : PassesFilters(calls[i].linter)

\* C2 witness: a call returned in which one rule ran and another, named in
\* both disable_linters and only_run, did not.
C2_Witness ==
    /\ JobReturned
    /\ calls # <<>>
    /\ \E k \in DOMAIN LINTERS :
          /\ Listed(LINTERS[k].name, DisableLinters)
          /\ Listed(LINTERS[k].name, OnlyRun)
          /\ ~Ran(k)

\* One string is a proper prefix of the other.
ProperPrefix(a, b) == Len(a) < Len(b) /\ SubSeq(b, 1, Len(a)) = a

\* C3: of two registered rules of which one's name is a proper prefix of the
\* other's, each runs exactly when its own name passes the two filters,
\* whatever the lists say about the other name.
C3_FiltersMatchWholeNames ==
    JobReturned =>
        \A p, q \in DOMAIN LINTERS :
            ProperPrefix(LINTERS[p].name, LINTERS[q].name) =>
                /\ Ran(p) <=> PassesFilters(p)
                /\ Ran(q) <=> PassesFilters(q)

\* C3 witness: disable_linters names the longer of two such names only; the
\* rule with the shorter name ran and the other did not.
C3_Witness ==
    /\ JobReturned
    /\ \E p, q \in DOMAIN LINTERS :
          /\ ProperPrefix(LINTERS[p].name, LINTERS[q].name)
          /\ Listed(LINTERS[q].name, DisableLinters)
          /\ ~Listed(LINTERS[p].name, DisableLinters)
          /\ Ran(p)
          /\ ~Ran(q)

\* C4: the batch function returns the conjunction of what lint_job_xml
\* returned for each name of the batch: true for an empty batch, false as
\* soon as one document failed.
C4_BatchIsConjunction ==
    pc = "done" =>
        /\ Len(results) = Len(object_names)
        /\ success = (\A i \in DOMAIN results : results[i])

\* C4 witness: a batch returned after its first document failed and its
\* second passed.
C4_Witness ==
    /\ pc = "done"
    /\ Len(results) = 2
    /\ ~results[1]
    /\ results[2]

\* The LintContext the current lint_job_xml call gives the rule at k.
ContextOf(k) ==
    LintContext(SectionProxy(filtered_config, section_name(LINTERS[k].name)),
                RunContext(object_names), tree)

Filtered == pc # "start"

\* C6, as claimed: the configuration _filter_config returns has only the
\* section 'job_linter' and sections named 'job_linter:' and a rule name.
C6_OnlyNamespaceSections ==
    Filtered =>
        \A s \in sections(filtered_config) :
            s = JOB_LINTER \/ startswith(s, JOB_LINTER \o <<":">>)

\* C6, amended: the configuration _filter_config returns has only sections
\* whose name starts with 'job_linter'; every other section of the caller's
\* configuration is removed.
C6_OnlyPrefixedSections ==
    Filtered =>
        \A s \in sections(filtered_config) : startswith(s, JOB_LINTER)

\* C6 witness: the caller's configuration has the sections 'jenkins' and
\* 'job_linter-thing'; the first is removed and the second is kept.
C6_Witness ==
    /\ Filtered
    /\ SectionJenkins \in sections(config)
    /\ SectionJenkins \notin sections(filtered_config)
    /\ SectionThing \in sections(filtered_config)

\* The registry is empty and GLOBAL_CONFIG_DEFAULTS is empty.
NoDefaults == LINTERS = <<>> /\ config_defaults = EmptyDict

\* C7, as claimed: without rules and global defaults, the sections of the
\* result are exactly the caller's sections whose name starts with
\* 'job_linter'.
C7_ExactlyPrefixedSections ==
    (Filtered /\ NoDefaults) =>
        sections(filtered_config) =
            {s \in sections(config) : startswith(s, JOB_LINTER)}

\* C7, amended: without rules and global defaults, the sections of the
\* result are the caller's sections whose name starts with 'job_linter', and
\* the section 'job_linter', which the result has even when the caller's
\* configuration does not.
C7_PrefixedSectionsAndJobLinter ==
    (Filtered /\ NoDefaults) =>
        sections(filtered_config) =
            {s \in sections(config) : startswith(s, JOB_LINTER)}
            \cup {JOB_LINTER}

\* C7 witness: without rules and global defaults, 'job_linter',
\* 'job_linter:linter' and 'job_linter-thing' are kept and 'jenkins' is
\* removed.
C7_Witness ==
    /\ Filtered
    /\ NoDefaults
    /\ sections(config) =
          {JOB_LINTER, SectionLinter, SectionThing, SectionJenkins}
    /\ sections(filtered_config) = {JOB_LINTER, SectionLinter, SectionThing}

\* C8: no step of a batch run changes the caller's configuration.
C8_CallerConfigUnchanged == [][config' = config]_vars

\* C8 witness: a batch of two documents returned, and a section of the
\* caller's configuration is not in the effective configuration.
C8_Witness ==
    /\ pc = "done"
    /\ Len(results) = 2
    /\ \E s \in sections(config) : s \notin sections(filtered_config)

\* The caller's configuration is an empty ConfigParser().
EmptyConfig == config = NewParser

\* The options read_dict stores for a dict of defaults: the same keys, None
\* for None and the str() of every other value.
AsStored(defaults) ==
    [o \in DOMAIN defaults |->
        IF defaults[o] = None THEN None ELSE PyStr(str(defaults[o]))]

\* The registered class whose section is s.
PluginOf(s) ==
    LINTERS[CHOOSE i \in DOMAIN LINTERS :
                section_name(LINTERS[i].name) = s].plugin

\* The sections of the registered rules.
LinterSections == {section_name(LINTERS[i].name) : i \in DOMAIN LINTERS}

\* C9: from an empty caller's configuration, the effective configuration has
\* the section 'job_linter' with the global defaults, one section
\* 'job_linter:<name>' for each registered rule with the rule's
\* default_config (each value as a parser stores it), and nothing else.
C9_EmptyConfigGivesDefaults ==
    (Filtered /\ EmptyConfig) =>
        /\ filtered_config.defaults = EmptyDict
        /\ sections(filtered_config) = {JOB_LINTER} \cup LinterSections
        /\ filtered_config.sections[JOB_LINTER] = AsStored(config_defaults)
        /\ \A s \in LinterSections :
              filtered_config.sections[s] =
                  AsStored(default_config(PluginOf(s)))

\* C9 witness: the effective configuration of an empty configuration with
\* the global defaults of the source and CheckShebang among two rules.
C9_Witness ==
    /\ Filtered
    /\ EmptyConfig
    /\ config_defaults = GLOBAL_CONFIG_DEFAULTS
    /\ Len(LINTERS) = 2
    /\ \E i \in DOMAIN LINTERS : LINTERS[i].plugin = "CheckShebang"

\* The defaults of a section of the effective configuration.
DefaultsOf(s) ==
    IF s = JOB_LINTER THEN config_defaults
    ELSE IF s \in LinterSections THEN default_config(PluginOf(s))
    ELSE EmptyDict

\* The caller's configuration sets the option in the section (in the section
\* itself or in DEFAULT).
UserSets(s, o) == s \in sections(config) /\ has_option(config, s, o)

\* C10: an option of a section of the effective configuration has the
\* caller's value when the caller's configuration sets it, and else the
\* default (global for 'job_linter', the rule's for 'job_linter:<name>');
\* the section has every option the caller sets in it, with or without a
\* default, and every default.
C10_UserOverridesDefaults ==
    Filtered =>
        \A s \in sections(filtered_config) :
            /\ DOMAIN filtered_config.sections[s] =
                  (IF s \in sections(config)
                   THEN DOMAIN proxy_items(config, s) ELSE {})
                  \cup DOMAIN DefaultsOf(s)
            /\ \A o \in DOMAIN filtered_config.sections[s] :
                  filtered_config.sections[s][o] =
                      IF UserSets(s, o) THEN get(config, s, o)
                      ELSE AsStored(DefaultsOf(s))[o]

\* C10 witness: the caller's configuration overrides required_shell_options
\* of CheckShebang, leaves allow_default_shebang to its default and sets an
\* option without a default in another rule's section.
C10_Witness ==
    /\ Filtered
    /\ \E i, j \in DOMAIN LINTERS :
          /\ LINTERS[i] = [name |-> NameShebang, plugin |-> "CheckShebang"]
          /\ LINTERS[j].name = NameDo
    /\ UserSets(section_name(NameShebang), "required_shell_options")
    /\ get(filtered_config, section_name(NameShebang),
           "required_shell_options") = PyStr(<<"e">>)
    /\ get(filtered_config, section_name(NameShebang),
           "allow_default_shebang") = PyStr(<<"T", "r", "u", "e">>)
    /\ UserSets(section_name(NameDo), "k")
    /\ get(filtered_config, section_name(NameDo), "k") = PyStr(<<"v">>)
\* ------------------------------------------------------------------------
\* Single calls: one function or method is called with arguments drawn from
\* a bounded set, outside a batch run.

\* The longest raw option value getlist is called on.
MaxLen == 4

\* No batch runs and no process was started.
NoRun ==
    /\ LINTERS = <<>>
    /\ config_defaults = GLOBAL_CONFIG_DEFAULTS
    /\ entry = "directory"
    /\ config = NewParser
    /\ filtered_config = None
    /\ object_names = <<>>
    /\ job = 0
    /\ tree = None
    /\ linter = 0
    /\ job_success = FALSE
    /\ success = FALSE
    /\ calls = <<>>
    /\ results = <<>>
    /\ output = <<>>
    /\ argv = None
    /\ exit_code = None
    /\ subcommand = None

\* The strings of at most n characters of an alphabet.
Strings(alphabet, n) == UNION {[1..k -> alphabet] : k \in 0..n}

\* The raw values of a list option: no value (None), and the strings of
\* letters, commas and blanks, with some that have other whitespace.
RawValues ==
    {None}
    \cup {PyStr(s) : s \in Strings({"a", "b", ",", " "}, MaxLen)}
    \cup {PyStr(<<"\t", "a", " ", ",", "\n", ",", "b", "\r">>),
          PyStr(<<"d", "o", "n", "t", ",", "a", "n", "o", "t", "h", "e", "r">>),
          PyStr(<<"A", "=", "1", ",", " ", "C", "=", "3">>)}

\* The option getlist is called for.
ListOption == "only_run"

\* The calls of getlist: the value is the section's own or the DEFAULT
\* section's.
GetlistCalls ==
    {[parser |-> Parser(EmptyDict, JOB_LINTER :> (ListOption :> v)),
      section |-> JOB_LINTER, option |-> ListOption] : v \in RawValues}
    \cup {[parser |-> Parser(ListOption :> v, JOB_LINTER :> EmptyDict),
           section |-> JOB_LINTER, option |-> ListOption] : v \in RawValues}

InitGetlist ==
    /\ NoRun
    /\ pc = "call"
    /\ args \in GetlistCalls
    /\ ret = None

\* config.getlist(section, option) returns.
Getlist ==
    /\ pc = "call"
    /\ ret' = getlist(args.parser, args.section, args.option)
    /\ pc' = "returned"
    /\ UNCHANGED <<LINTERS, config_defaults, entry, config, filtered_config,
                   object_names, job, tree, linter, job_success, success,
                   calls, results, output, argv, exit_code, subcommand,
                   args>>

NextGetlist == Getlist

SpecGetlist == InitGetlist /\ [][NextGetlist]_vars

\* The call has returned.
Returned == pc = "returned"

\* The raw value getlist was called on.
RawValue == get(args.parser, args.section, args.option)

\* The positions of the commas of a string, and the position of the k-th
\* (0 before the string for k = 0, one past its end after the last comma).
Commas(s) == {i \in 1..Len(s) : s[i] = ","}
CommaAt(s, k) ==
    IF k = 0 THEN 0
    ELSE IF k > Cardinality(Commas(s)) THEN Len(s) + 1
    ELSE CHOOSE i \in Commas(s) :
            Cardinality({j \in Commas(s) : j < i}) = k - 1

\* The k-th comma-separated field of a string.
Field(s, k) == SubSeq(s, CommaAt(s, k - 1) + 1, CommaAt(s, k) - 1)

\* t is the field f without its leading and trailing whitespace.
IsStripped(t, f) ==
    /\ t # <<>> => t[1] \notin Whitespace /\ t[Len(t)] \notin Whitespace
    /\ \E a \in 0..Len(f) :
          /\ \A i \in 1..a : f[i] \in Whitespace
          /\ a + Len(t) <= Len(f)
          /\ SubSeq(f, a + 1, a + Len(t)) = t
          /\ \A i \in (a + Len(t) + 1)..Len(f) : f[i] \in Whitespace

\* C11: getlist returns the empty list for a raw value that is None or
\* empty; for any other raw value it returns one item for each
\* comma-separated field, in the order of the fields, each item being its
\* field without leading and trailing whitespace.
C11_GetlistSplitsAndStrips ==
    Returned =>
        IF RawValue = None \/ RawValue.s = <<>>
        THEN ret = PyList(<<>>)
        ELSE /\ ret.t = "list"
             /\ Len(ret.l) = Cardinality(Commas(RawValue.s)) + 1
             /\ \A k \in 1..Len(ret.l) :
                   IsStripped(ret.l[k], Field(RawValue.s, k))

\* C11 witness: getlist returned two different items in the order of their
\* fields, one of them shorter than its field.
C11_Witness ==
    /\ Returned
    /\ RawValue # None
    /\ ret.t = "list"
    /\ Len(ret.l) >= 2
    /\ ret.l[1] = <<"a">>
    /\ ret.l[2] = <<"b">>
    /\ Len(ret.l[2]) < Len(Field(RawValue.s, 2))
\* ------------------------------------------------------------------------
\* Properties of the output.

\* ': ' between the parts of an output line, and the word FAIL.
Colon == <<":", " ">>
WordFAIL == <<"F", "A", "I", "L">>

\* C12: a step of a run prints a line exactly when it is a check that
\* returned FAIL, and then it prints that one line only:
\* '<job name>: <description>: FAIL', followed by ': <text>' exactly when
\* the check returned a text; a check that returned PASS or SKIP, a rule
\* that was filtered out and every other step print nothing.
C12_OneLinePerFailedCheck ==
    [][LET checked == Len(calls') = Len(calls) + 1
           c == calls'[Len(calls')]
       IN  IF checked /\ c.ret.result = FAIL
           THEN LET line ==
                        object_names[job] \o Colon
                        \o description(LINTERS[c.linter].plugin)
                        \o Colon \o WordFAIL
                IN  output' =
                        Append(output,
                               IF c.ret.text = None THEN line
                               ELSE line \o Colon \o c.ret.text.s)
           ELSE output' = output]_vars

\* C12 witness: a document's calls returned FAIL with a text and PASS, and
\* of the two lines printed so far one ends in FAIL and the other does not.
C12_Witness ==
    /\ Len(output) = 2
    /\ \E i, j \in DOMAIN calls :
          /\ calls[i].ret.result = FAIL
          /\ calls[i].ret.text # None
          /\ calls[j].ret.result = PASS
    /\ \E i, j \in DOMAIN output :
          /\ SubSeq(output[i], Len(output[i]) - 3, Len(output[i])) = WordFAIL
          /\ SubSeq(output[j], Len(output[j]) - 3, Len(output[j])) # WordFAIL
\* ------------------------------------------------------------------------
\* The command line entry points: the click group `main` with its commands
\* lint-directory and lint-jenkins, and the `lint` subcommand of
\* jenkins-jobs (LintSubCommand.execute).

\* A path of the file system as a command line names it.
Paths ==
    {[kind |-> k, readable |-> r] :
        k \in {"missing", "file", "directory"}, r \in BOOLEAN}
    \ {[kind |-> "missing", readable |-> TRUE]}

\* A faulty variant of click_Path: nothing is checked.
click_Path_unchecked(path, file_okay, dir_okay) == TRUE

\* click.Path(exists=True, file_okay=..., dir_okay=...) accepts the path:
\* it exists, is of an allowed kind and is readable.
click_Path(path, file_okay, dir_okay) ==
    /\ path.kind # "missing"
    /\ file_okay \/ path.kind # "file"
    /\ dir_okay \/ path.kind # "directory"
    /\ path.readable

\* The exit code of a click usage error, and of an uncaught exception.
UsageErrorCode == 2
TracebackCode == 1

\* A faulty variant of exit_status: the result is not looked at.
exit_status_zero(result) == 0

\* `if not result: sys.exit(1)` and `sys.exit(0)`.
exit_status(result) == IF ~result THEN 1 ELSE 0

\* The command lines: --conf given or not, the directory argument of
\* lint-directory, the three required options of lint-jenkins given or not.
CommandLines ==
    {[command |-> "lint-directory", conf |-> c, directory |-> d,
      jenkins_options |-> FALSE] : c \in Paths \cup {None}, d \in Paths}
    \cup {[command |-> "lint-jenkins", conf |-> c, directory |-> None,
           jenkins_options |-> o] : c \in Paths \cup {None}, o \in BOOLEAN}
    \cup {[command |-> "lint", conf |-> None, directory |-> None,
           jenkins_options |-> FALSE]}

\* The process starts with a command line; jenkins-jobs lint is about to call
\* LintSubCommand.execute(options, jjb_config), with the options as its
\* parser left them.
InitCLI ==
    /\ LINTERS \in Registries
    /\ config_defaults = GLOBAL_CONFIG_DEFAULTS
    /\ entry = "none"
    /\ config = None
    /\ filtered_config = None
    /\ object_names = <<>>
    /\ pc = "cli"
    /\ job = 0
    /\ tree = None
    /\ linter = 0
    /\ job_success = FALSE
    /\ success = FALSE
    /\ calls = <<>>
    /\ results = <<>>
    /\ output = <<>>
    /\ argv \in CommandLines
    /\ exit_code = None
    /\ IF argv.command = "lint"
       THEN subcommand \in
               {[options |-> [config_xml |-> c, output_dir |-> o],
                 jjb_config |-> [config_parser |-> p],
                 tmpdir |-> None,
                 super_execute |-> <<>>,
                 lint_jobs_from_directory |-> <<>>] :
                    c \in {None, PyBool(TRUE)},
                    o \in {None, PyStr(<<"o", "u", "t">>)},
                    p \in UserConfigs}
       ELSE subcommand = None
    /\ args = None
    /\ ret = None

\* click parses the options of the group and calls main(): a --conf that
\* click.Path refuses ends the process with a usage error; else
\* `config = ConfigParser()`, and config.read(conf) when --conf is given.
Main ==
    /\ pc = "cli"
    /\ argv.command \in {"lint-directory", "lint-jenkins"}
    /\ IF argv.conf # None /\ ~click_Path(argv.conf, TRUE, FALSE)
       THEN /\ pc' = "exited"
            /\ exit_code' = UsageErrorCode
            /\ UNCHANGED config
       ELSE /\ pc' = "main"
            /\ IF argv.conf = None THEN config' = NewParser
               ELSE config' \in UserConfigs
            /\ UNCHANGED exit_code
    /\ UNCHANGED <<LINTERS, config_defaults, entry, filtered_config,
                   object_names, job, tree, linter, job_success, success,
                   calls, results, output, argv, subcommand, call_vars>>

\* config.read(conf) raises on a file that is no configuration file.
ReadError ==
    /\ pc = "cli"
    /\ argv.command \in {"lint-directory", "lint-jenkins"}
    /\ argv.conf # None
    /\ click_Path(argv.conf, TRUE, FALSE)
    /\ pc' = "raised"
    /\ UNCHANGED <<LINTERS, config_defaults, entry, config, filtered_config,
                   object_names, job, tree, linter, job_success, success,
                   calls, results, output, process_vars, call_vars>>

\* click parses the parameters of the command and calls it: a directory
\* that click.Path refuses, or a missing required option, ends the process
\* with a usage error; else the command calls its batch function with
\* ctx.obj.
Command ==
    /\ pc = "main"
    /\ LET refused ==
               IF argv.command = "lint-directory"
               THEN ~click_Path(argv.directory, FALSE, TRUE)
               ELSE ~argv.jenkins_options
       IN  IF refused
           THEN /\ pc' = "exited"
                /\ exit_code' = UsageErrorCode
                /\ UNCHANGED entry
           ELSE /\ pc' = "start"
                /\ entry' = IF argv.command = "lint-directory"
                            THEN "directory" ELSE "jenkins"
                /\ UNCHANGED exit_code
    /\ UNCHANGED <<LINTERS, config_defaults, config, filtered_config,
                   object_names, job, tree, linter, job_success, success,
                   calls, results, output, argv, subcommand, call_vars>>

\* LintSubCommand.execute begins: `options.config_xml = False`.
SetConfigXml ==
    /\ pc = "cli"
    /\ argv.command = "lint"
    /\ subcommand' =
          [subcommand EXCEPT !.options.config_xml = PyBool(FALSE)]
    /\ pc' = "execute"
    /\ UNCHANGED <<LINTERS, config_defaults, entry, config, filtered_config,
                   object_names, job, tree, linter, job_success, success,
                   calls, results, output, argv, exit_code, call_vars>>

\* `with tempfile.TemporaryDirectory() as tmpdir` makes a directory, and
\* `options.output_dir = tmpdir`.
TemporaryDirectory ==
    /\ pc = "execute"
    /\ \E tmpdir \in {PyStr(<<"t", "m", "p", "1">>),
                       PyStr(<<"t", "m", "p", "2">>)} :
          subcommand' = [subcommand EXCEPT !.tmpdir = tmpdir,
                                           !.options.output_dir = tmpdir]
    /\ pc' = "compile"
    /\ UNCHANGED <<LINTERS, config_defaults, entry, config, filtered_config,
                   object_names, job, tree, linter, job_success, success,
                   calls, results, output, argv, exit_code, call_vars>>

\* A faulty variant of SuperExecute: the parent's execute is not called.
SuperExecute_skipped ==
    /\ pc = "compile"
    /\ pc' = "compiled"
    /\ UNCHANGED <<LINTERS, config_defaults, entry, config, filtered_config,
                   object_names, job, tree, linter, job_success, success,
                   calls, results, output, process_vars, call_vars>>

\* `super(LintSubCommand, self).execute(options, jjb_config)` is called with
\* the options as they are now, and returns.
SuperExecute ==
    /\ pc = "compile"
    /\ subcommand' =
          [subcommand EXCEPT !.super_execute =
              Append(@, [options |-> subcommand.options,
                         jjb_config |-> subcommand.jjb_config])]
    /\ pc' = "compiled"
    /\ UNCHANGED <<LINTERS, config_defaults, entry, config, filtered_config,
                   object_names, job, tree, linter, job_success, success,
                   calls, results, output, argv, exit_code, call_vars>>

\* The same call raises (the job definitions do not compile): execute does
\* not catch it.
SuperExecuteError ==
    /\ pc = "compile"
    /\ subcommand' =
          [subcommand EXCEPT !.super_execute =
              Append(@, [options |-> subcommand.options,
                         jjb_config |-> subcommand.jjb_config])]
    /\ pc' = "raised"
    /\ UNCHANGED <<LINTERS, config_defaults, entry, config, filtered_config,
                   object_names, job, tree, linter, job_success, success,
                   calls, results, output, argv, exit_code, call_vars>>

\* `lint_jobs_from_directory(tmpdir, jjb_config.config_parser)` is called.
Execute ==
    /\ pc = "compiled"
    /\ subcommand' =
          [subcommand EXCEPT !.lint_jobs_from_directory =
              Append(@, [compiled_job_directory |-> subcommand.tmpdir,
                         config |-> subcommand.jjb_config.config_parser])]
    /\ config' = subcommand.jjb_config.config_parser
    /\ entry' = "directory"
    /\ pc' = "start"
    /\ UNCHANGED <<LINTERS, config_defaults, filtered_config, object_names,
                   job, tree, linter, job_success, success, calls, results,
                   output, argv, exit_code, call_vars>>

\* The batch function returned `result`: sys.exit(1) or sys.exit(0).
Exit ==
    /\ pc = "done"
    /\ argv # None
    /\ exit_code' = exit_status(success)
    /\ pc' = "exited"
    /\ UNCHANGED <<LINTERS, config_defaults, entry, config, filtered_config,
                   object_names, job, tree, linter, job_success, success,
                   calls, results, output, argv, subcommand, call_vars>>

\* An exception nothing catches ends the process.
Traceback ==
    /\ pc = "raised"
    /\ argv # None
    /\ exit_code' = TracebackCode
    /\ pc' = "exited"
    /\ UNCHANGED <<LINTERS, config_defaults, entry, config, filtered_config,
                   object_names, job, tree, linter, job_success, success,
                   calls, results, output, argv, subcommand, call_vars>>

NextCLI ==
    \/ Main
    \/ ReadError
    \/ Command
    \/ SetConfigXml
    \/ TemporaryDirectory
    \/ SuperExecute
    \/ SuperExecuteError
    \/ Execute
    \/ FilterConfig
    \/ ListJobs
    \/ ParseJob
    \/ ParseError
    \/ LintStep
    \/ ReturnJob
    \/ Return
    \/ Exit
    \/ Traceback

SpecCLI == InitCLI /\ [][NextCLI]_vars

\* The process has exited.
Exited == pc = "exited"

\* The batch function was called and returned: every document of the batch
\* was linted.
BatchReturned ==
    /\ filtered_config # None
    /\ job = Len(object_names)
    /\ Len(results) = Len(object_names)

\* What the batch function returned: whether every document succeeded.
BatchResult == \A i \in DOMAIN results : results[i]

\* C13: a process whose batch function returned exits with code 0 if it
\* returned true and with code 1 if it returned false, from lint-directory,
\* lint-jenkins and the lint subcommand alike.
C13_ExitCodeIsBatchResult ==
    (Exited /\ BatchReturned) =>
        /\ BatchResult => exit_code = 0
        /\ ~BatchResult => exit_code = 1

\* C13 witness: the lint subcommand exited with code 1 after a batch of two
\* documents of which the second failed.
C13_Witness ==
    /\ Exited
    /\ BatchReturned
    /\ argv.command = "lint"
    /\ Len(results) = 2
    /\ results[1]
    /\ ~results[2]
    /\ exit_code = 1

\* The command line is malformed: the job directory is missing, is no
\* directory or is unreadable, or the --conf file is missing, is a
\* directory or is unreadable.
BadPath(path, kind) ==
    path.kind = "missing" \/ path.kind # kind \/ ~path.readable
Malformed ==
    /\ argv # None
    /\ \/ argv.conf # None /\ BadPath(argv.conf, "file")
       \/ argv.directory # None /\ BadPath(argv.directory, "directory")

\* C14: on a malformed command line the batch function is never called (the
\* process is never at a step of a batch function and no effective
\* configuration is ever built), and when the process has exited its exit
\* code is not 0.
C14_MalformedInputNeverLints ==
    Malformed =>
        /\ pc \notin {"start", "list", "loop", "lint", "done"}
        /\ filtered_config = None
        /\ Exited => exit_code # 0

\* C14 witness: lint-directory exited on an unreadable directory after
\* main() read a good --conf file.
C14_Witness ==
    /\ Exited
    /\ Malformed
    /\ argv.command = "lint-directory"
    /\ argv.conf = [kind |-> "file", readable |-> TRUE]
    /\ argv.directory = [kind |-> "directory", readable |-> FALSE]
    /\ config \in UserConfigs
\* ------------------------------------------------------------------------
\* Single calls of the rules: shell_check on one shell builder's script, and
\* check() on a document.

\* The most option letters after '#!/bin/sh -' in the scripts, and the most
\* shell builders in the documents.
MaxOptions == 3
MaxSteps == 2

\* '#!/bin/sh -<letters>' for every string of the letters e, u and x.
OptionShebangs ==
    {<<"#", "!", "/", "b", "i", "n", "/", "s", "h", " ", "-">> \o s : s \in Strings({"e", "u", "x"}, MaxOptions)}

\* Other scripts: other shells and interpreters, other separators between
\* the interpreter and its options, further lines, no shebang.
OtherScripts ==
    {<<"#", "!", "/", "b", "i", "n", "/", "s", "h">>,
     <<"#", "!", "/", "b", "i", "n", "/", "b", "a", "s", "h", " ", "-",
        "e", "u", "x">>,
     <<"#", "!", "/", "b", "i", "n", "/", "z", "s", "h">>,
     <<"#", "!", "/", "b", "i", "n", "/", "s", "h", " ", "-", "l", "o",
        "l", "n", "o">>,
     <<"#", "!", "/", "b", "i", "n", "/", "s", "h", " ", " ", "-", "e",
        "u", "x">>,
     <<"#", "!", "/", "b", "i", "n", "/", "s", "h", "\t", "-", "e", "u",
        "x">>,
     <<"#", "!", "/", "b", "i", "n", "/", "s", "h", " ", "-", "e", " ",
        "-", "u", " ", "-", "x">>,
     <<"#", "!", "/", "b", "i", "n", "/", "s", "h", " ", "-", "e", "u",
        "x", "o", " ", "p", "i", "p", "e", "f", "a", "i", "l">>,
     <<"#", "!", "/", "b", "i", "n", "/", "s", "h", " ", "-", "x", "e",
        "u", "\n", "e", "c", "h", "o", " ", "h", "i">>,
     <<"#", "!", "/", "b", "i", "n", "/", "s", "h", " ", "e", "u", "x">>,
     <<"#", "!", "/", "b", "i", "n", "/", "s", "h", " ", "-", "-", "e",
        "u", "x">>,
     <<"#", "!", "/", "b", "i", "n", "/", "s", "h", " ", "-", "E", "U",
        "X">>,
     <<"#", "!", "/", "b", "i", "n", "/", "s", "h", "-", "e", "u", "x">>,
     <<"#", "!", "/", "b", "i", "n", "/", "s", "h", "x", " ", "-", "e",
        "u", "x">>,
     <<"#", "!", "/", "u", "s", "r", "/", "b", "i", "n", "/", "e", "n",
        "v", " ", "p", "y", "t", "h", "o", "n">>,
     <<"#", "!", "/", "u", "s", "r", "/", "b", "i", "n", "/", "e", "n",
        "v", " ", "b", "a", "s", "h", " ", "-", "e", "u", "x">>,
     <<"#", "!", "/", "b", "i", "n", "/", "p", "y", "t", "h", "o", "n",
        " ", "-", "e", "u", "x">>,
     <<"#", "!">>,
     <<"e", "c", "h", "o", " ", "h", "i">>,
     <<"n", "o", "-", "s", "h", "e", "b", "a", "n", "g", "-", "i", "s",
        "-", "f", "i", "n", "e">>,
     <<" ", "#", "!", "/", "b", "i", "n", "/", "s", "h", " ", "-", "e",
        "u", "x">>,
     <<"\n", "#", "!", "/", "b", "i", "n", "/", "s", "h", " ", "-", "e",
        "u", "x">>,
     <<"e", "c", "h", "o", " ", "h", "i", "\n", "#", "!", "/", "b", "i",
        "n", "/", "s", "h">>}

\* command.text of a shell builder: None for an element without text, else
\* the script.
Scripts == {None} \cup {PyStr(s) : s \in OptionShebangs \cup OtherScripts}

\* The caller's configurations for the rules: allow_default_shebang and
\* required_shell_options of CheckShebang are left out or set.
RuleConfigs ==
    {Parser(EmptyDict, Sect(section_name(NameShebang), o)) :
        o \in {Absent}
              \cup {[allow_default_shebang |-> PyStr(a)] :
                        a \in {<<"n", "o">>, <<"Y", "e", "s">>, <<"f", "a", "l", "s", "e">>, <<"m", "a", "y", "b", "e">>}}
              \cup {[required_shell_options |-> PyStr(q)] :
                        q \in {<<>>, <<"e">>, <<"x", "u">>, <<"u", "x", "e">>, <<"e", "e">>}}
              \cup {[allow_default_shebang |-> PyStr(a),
                     required_shell_options |-> PyStr(q)] :
                        a \in {<<"o", "f", "f">>, <<"1">>},
                        q \in {<<>>, <<"e", "u">>}}}

\* The names of the batch a rule is run in.
RuleObjectNames == Batch(2)

\* The LintContext lint_job_xml gives the only registered rule for a
\* document, under the caller's configuration.
RuleContext(document) ==
    LintContext(SectionProxy(_filter_config(config).returned,
                             section_name(LINTERS[1].name)),
                RunContext(RuleObjectNames), document)

\* One rule is registered, under a caller's configuration; no batch runs.
OneRule(entry_points) ==
    /\ LINTERS \in {<<e>> : e \in entry_points}
    /\ config_defaults = GLOBAL_CONFIG_DEFAULTS
    /\ entry = "none"
    /\ config \in RuleConfigs
    /\ filtered_config = None
    /\ object_names = <<>>
    /\ job = 0
    /\ tree = None
    /\ linter = 0
    /\ job_success = FALSE
    /\ success = FALSE
    /\ calls = <<>>
    /\ results = <<>>
    /\ output = <<>>
    /\ argv = None
    /\ exit_code = None
    /\ subcommand = None

\* A project document with the given shell builders.
ShellProject(commands) == Tree("project", <<>>, <<>>, <<>>, commands)

\* shell_check(shell_script) is called on a rule that derives from
\* ShellBuilderLinter.
InitShellCheck ==
    /\ OneRule({e \in Extensions : e.plugin \in ShellBuilderLinters})
    /\ pc = "call"
    /\ \E shell_script \in Scripts :
          args = [cls |-> LINTERS[1].plugin,
                  ctx |-> RuleContext(ShellProject(<<shell_script>>)),
                  shell_script |-> shell_script]
    /\ ret = None

\* self.shell_check(shell_script) returns or raises.
ShellCheck ==
    /\ pc = "call"
    /\ ret' = shell_check(args.cls, args.ctx, args.shell_script)
    /\ pc' = "returned"
    /\ UNCHANGED <<LINTERS, config_defaults, entry, config, filtered_config,
                   object_names, job, tree, linter, job_success, success,
                   calls, results, output, argv, exit_code, subcommand,
                   args>>

NextShellCheck == ShellCheck

SpecShellCheck == InitShellCheck /\ [][NextShellCheck]_vars

\* A path at which a document has a TimestamperBuildWrapper element that is
\* not a build wrapper of the project.
PublishersTimestamper ==
    "./publishers/hudson.plugins.timestamper.TimestamperBuildWrapper"

\* The texts of the shell builders of the documents.
StepScripts ==
    {None,
     PyStr(<<"#", "!", "/", "b", "i", "n", "/", "s", "h", " ", "-", "e", "u",
        "x">>),
     PyStr(<<"#", "!", "/", "b", "i", "n", "/", "s", "h">>),
     PyStr(<<"#", "!", "/", "b", "i", "n", "/", "s", "h", " ", "-", "e", "u">>),
     PyStr(<<"#", "!", "/", "u", "s", "r", "/", "b", "i", "n", "/", "e", "n",
        "v", " ", "p", "y", "t", "h", "o", "n">>),
     PyStr(<<"e", "c", "h", "o", " ", "h", "i">>),
     PyStr(<<".", ".", ".">>)}

\* The documents check() is called on: project documents and another kind,
\* with and without the timestamper build wrapper, with up to MaxSteps shell
\* builders; and a project with the timestamper element elsewhere.
RuleTrees ==
    {Tree(tag, wrappers, <<>>, <<>>, commands) :
        tag \in {"project", "matrix-project"},
        wrappers \in {<<>>, <<None>>},
        commands \in UNION {[1..n -> StepScripts] : n \in 0..MaxSteps}}
    \cup {[ShellProject(<<>>) EXCEPT
              !.elements = (PublishersTimestamper :> <<None>>) @@ @]}

\* check() is called on the only registered rule.
InitCheck ==
    /\ OneRule(Extensions)
    /\ pc = "call"
    /\ \E document \in RuleTrees :
          args = [cls |-> LINTERS[1].plugin, ctx |-> RuleContext(document)]
    /\ ret = None

\* linter.check() returns or raises.
Check ==
    /\ pc = "call"
    /\ ret' = check(args.cls, args.ctx).ret
    /\ pc' = "returned"
    /\ UNCHANGED <<LINTERS, config_defaults, entry, config, filtered_config,
                   object_names, job, tree, linter, job_success, success,
                   calls, results, output, argv, exit_code, subcommand,
                   args>>

NextCheck == Check

SpecCheck == InitCheck /\ [][NextCheck]_vars
\* ------------------------------------------------------------------------
\* Properties of CheckShebang.shell_check.

\* shell_check of CheckShebang has returned or raised for a script.
ShebangChecked ==
    /\ Returned
    /\ args.cls = "CheckShebang"
    /\ args.shell_script # None

\* The first line of the script, and the options of the rule's section.
FirstLine == first_line_of(args.shell_script.s).s
RequiredShellOptions ==
    get(args.ctx.config.parser, args.ctx.config.name,
        "required_shell_options").s
AllowDefaultShebang ==
    get(args.ctx.config.parser, args.ctx.config.name,
        "allow_default_shebang").s

\* 'Shebang is ' and "Shebang is Jenkins' default".
ShebangIs == <<"S", "h", "e", "b", "a", "n", "g", " ", "i", "s", " ">>
ShebangIsDefault == <<"S", "h", "e", "b", "a", "n", "g", " ", "i", "s", " ", "J", "e",
        "n", "k", "i", "n", "s", "'", " ", "d", "e", "f", "a", "u",
        "l", "t">>

\* Where the whitespace-separated tokens of a line start, and the second of
\* them.
TokenStarts(line) ==
    {i \in 1..Len(line) :
        /\ line[i] \notin Whitespace
        /\ i = 1 \/ line[i - 1] \in Whitespace}
SecondToken(line) ==
    LET i == CHOOSE i \in TokenStarts(line) :
                Cardinality({j \in TokenStarts(line) : j < i}) = 1
        k == CHOOSE k \in i..Len(line) :
                /\ \A h \in i..k : line[h] \notin Whitespace
                /\ k = Len(line) \/ line[k + 1] \in Whitespace
    IN  SubSeq(line, i, k)

\* The option letters of a token: the lower-case letters that follow its
\* single leading dash.
OptionLetters(token) ==
    IF token[1] # "-" THEN {}
    ELSE {token[i] : i \in {i \in 2..Len(token) :
                               \A h \in 2..i : token[h] \in LowerCase}}

\* The line has a second whitespace-separated token whose option letters
\* include every required option.
SecondTokenHasOptions(line, required) ==
    /\ Cardinality(TokenStarts(line)) >= 2
    /\ CharSet(required) \subseteq OptionLetters(SecondToken(line))

\* C15, as claimed: for a script whose first line matches #!/bin/<letters>sh,
\* CheckShebang passes the step if required_shell_options is empty or if the
\* second whitespace-separated token of the line has every required option
\* among its single-dash option letters, and in every other case fails it
\* with the text 'Shebang is <first line>'.
C15_ShebangOptionsOfSecondToken ==
    (ShebangChecked /\ is_shell_shebang(FirstLine)) =>
        ret = IF \/ RequiredShellOptions = <<>>
                 \/ SecondTokenHasOptions(FirstLine, RequiredShellOptions)
              THEN CheckResult(PASS, None)
              ELSE CheckResult(FAIL, PyStr(ShebangIs \o FirstLine))
\* ------------------------------------------------------------------------
\* C16: scripts without a shebang line.

\* allow_default_shebang is a word getboolean() takes as true, or as false.
AllowTrue == lower(AllowDefaultShebang) \in BooleanTrue
AllowFalse == lower(AllowDefaultShebang) \in BooleanFalse

\* shell_check of CheckShebang has returned for a builder without script
\* text.
EmptyScriptChecked ==
    /\ Returned
    /\ args.cls = "CheckShebang"
    /\ args.shell_script = None

\* shell_check of CheckShebang has returned for a script whose first line
\* does not start with '#!'.
NoShebangChecked ==
    /\ ShebangChecked
    /\ ~startswith(FirstLine, <<"#", "!">>)

\* What the rule returns for a script that uses Jenkins' default shebang.
DefaultShebangResult ==
    IF AllowTrue THEN CheckResult(SKIP, None)
    ELSE CheckResult(FAIL, PyStr(ShebangIsDefault))

\* C16, as claimed: every step whose script has no first line starting with
\* '#!', a step without script text included, is Skip when
\* allow_default_shebang is true and Fail with "Shebang is Jenkins' default"
\* when it is false.
C16_NoShebangFollowsAllowDefault ==
    ((EmptyScriptChecked \/ NoShebangChecked) /\ (AllowTrue \/ AllowFalse)) =>
        ret = DefaultShebangResult

\* C16, amended: every step with script text whose first line does not start
\* with '#!' is Skip when allow_default_shebang is true and Fail with
\* "Shebang is Jenkins' default" when it is false; a step without script text
\* is Skip whatever allow_default_shebang is.
C16_ScriptWithoutShebangFollowsAllowDefault ==
    /\ (NoShebangChecked /\ (AllowTrue \/ AllowFalse)) =>
            ret = DefaultShebangResult
    /\ EmptyScriptChecked => ret = CheckResult(SKIP, None)

\* C16 witness: 'echo hi' failed with "Shebang is Jenkins' default" under
\* allow_default_shebang = off.
C16_Witness ==
    /\ NoShebangChecked
    /\ args.shell_script = PyStr(<<"e", "c", "h", "o", " ", "h", "i">>)
    /\ AllowDefaultShebang = <<"o", "f", "f">>
    /\ ret = CheckResult(FAIL, PyStr(ShebangIsDefault))
\* ------------------------------------------------------------------------
\* Properties of check() on a document.

\* check() of the class has returned or raised for a project document.
ProjectChecked(cls) ==
    /\ Returned
    /\ args.cls = cls
    /\ args.ctx.tree.tag = "project"

\* The texts of the document's shell builders, in document order.
ShellBuilders == findall(args.ctx.tree, "./builders/hudson.tasks.Shell/command")

\* The first line of the script of the document's n-th shell builder.
StepFirstLine(n) == first_line_of(ShellBuilders[n].s).s

StepResult(n) == shell_check(args.cls, args.ctx, ShellBuilders[n])
FailingSteps == {n \in 1..Len(ShellBuilders) : StepResult(n).result = FAIL}

\* C18: whenever check() of CheckShebang or CheckForEmptyShell returns a
\* result for a project document, the result is Skip if the document has no
\* shell steps; otherwise it is Fail if and only if some step, wherever it is
\* in the document, fails its per-step check, and a failing result is the
\* result (detail included) of the first failing step in document order.
C18_FirstFailingStepDecides ==
    (/\ \E cls \in ShellBuilderLinters : ProjectChecked(cls)
     /\ ret.result \notin Exceptions)
        => IF ShellBuilders = <<>> THEN ret = CheckResult(SKIP, None)
           ELSE /\ ret.result = FAIL <=> FailingSteps # {}
                /\ ret.result = FAIL =>
                      \E n \in FailingSteps :
                          /\ \A h \in FailingSteps : n <= h
                          /\ ret = StepResult(n)

\* C18 witness: CheckShebang failed a document whose first step
\* '#!/bin/sh -eux' passes and whose second step '#!/bin/sh -eu' fails, with
\* the detail of the second step.
C18_Witness ==
    /\ ProjectChecked("CheckShebang")
    /\ ShellBuilders = <<PyStr(<<"#", "!", "/", "b", "i", "n", "/", "s", "h", " ", "-", "e", "u",
        "x">>),
                         PyStr(<<"#", "!", "/", "b", "i", "n", "/", "s", "h", " ", "-", "e", "u">>)>>
    /\ FailingSteps = {2}
    /\ ret = CheckResult(FAIL, PyStr(ShebangIs \o <<"#", "!", "/", "b", "i", "n", "/", "s", "h", " ", "-", "e", "u">>))

\* C19: CheckForEmptyShell on a project document returns Fail without detail
\* text if some shell step has no script text, Pass if every shell step has
\* script text, and Skip if the document has no shell steps.
C19_EmptyShellResult ==
    ProjectChecked("CheckForEmptyShell") =>
        ret = IF ShellBuilders = <<>> THEN CheckResult(SKIP, None)
              ELSE IF \E n \in 1..Len(ShellBuilders) : ShellBuilders[n] = None
              THEN CheckResult(FAIL, None)
              ELSE CheckResult(PASS, None)

\* C19 witness: CheckForEmptyShell failed, without text, a document whose
\* first step is 'echo hi' and whose second step has no script text.
C19_Witness ==
    /\ ProjectChecked("CheckForEmptyShell")
    /\ ShellBuilders = <<PyStr(<<"e", "c", "h", "o", " ", "h", "i">>), None>>
    /\ ret = CheckResult(FAIL, None)

\* The document has a TimestamperBuildWrapper element at some path.
TimestamperAnywhere ==
    \E p \in DOMAIN args.ctx.tree.elements :
        /\ p \in {"./buildWrappers/hudson.plugins.timestamper.TimestamperBuildWrapper",
                  PublishersTimestamper}
        /\ args.ctx.tree.elements[p] # <<>>

\* C20, as claimed: EnsureTimestamps on a project document returns Pass if
\* the timestamper build-wrapper element exists anywhere in the document and
\* Fail otherwise; it never returns Skip and never returns detail text.
C20_TimestampsPassOrFail ==
    ProjectChecked("EnsureTimestamps") =>
        /\ ret.result = IF TimestamperAnywhere THEN PASS ELSE FAIL
        /\ ret.result # SKIP
        /\ ret.text = None
\* ------------------------------------------------------------------------
\* Single calls of check() on CheckEnvInject and CheckJobReferences.

\* The most reference nodes in the documents.
MaxRefs == 2

\* The caller's configurations: required_environment_settings of
\* CheckEnvInject is left out, has no value, or is set.
EnvConfigs ==
    {Parser(EmptyDict, Sect(section_name(NameEnv), o)) :
        o \in {Absent, [required_environment_settings |-> None]}
              \cup {[required_environment_settings |-> PyStr(v)] :
                        v \in {<<>>, <<"A", "=", "1">>, <<"A", "=", "1", ",", " ", "C", "=", "3">>,
                               <<"C", "=", "3", ",", "A", "=", "1">>, <<"B", "=", "2", " ", ",", "A", "=", "1">>, <<",">>}}}

\* The documents: with no, one or two propertiesContent elements, and with up
\* to MaxRefs projects elements of trigger builders.
JobTrees ==
    {Tree(tag, <<>>, properties, projects, <<>>) :
        tag \in {"project", "matrix-project"},
        properties \in {<<>>, <<None>>,
                        <<PyStr(<<"A", "=", "1">>)>>,
                        <<PyStr(<<"A", "=", "1", "\n", "B", "=", "2">>)>>,
                        <<PyStr(<<"A", "=", "1", "0", "\n", "B", "=", "2">>)>>,
                        <<PyStr(<<"C", "=", "3", "\n", "A", "=", "1", "\n">>)>>,
                        <<None, PyStr(<<"A", "=", "1">>)>>},
        projects \in UNION {[1..n -> {None, PyStr(<<"a">>), PyStr(<<"c">>),
                                      PyStr(<<"a", "b">>)}] :
                               n \in 0..MaxRefs}}

\* check() is called on CheckEnvInject or CheckJobReferences, the only
\* registered rule.
InitJobCheck ==
    /\ LINTERS \in {<<e>> : e \in {x \in Extensions :
                        x.plugin \in {"CheckEnvInject", "CheckJobReferences"}}}
    /\ config_defaults = GLOBAL_CONFIG_DEFAULTS
    /\ entry = "none"
    /\ config \in EnvConfigs
    /\ filtered_config = None
    /\ object_names = <<>>
    /\ job = 0
    /\ tree = None
    /\ linter = 0
    /\ job_success = FALSE
    /\ success = FALSE
    /\ calls = <<>>
    /\ results = <<>>
    /\ output = <<>>
    /\ argv = None
    /\ exit_code = None
    /\ subcommand = None
    /\ pc = "call"
    /\ \E document \in JobTrees :
          args = [cls |-> LINTERS[1].plugin, ctx |-> RuleContext(document)]
    /\ ret = None

SpecJobCheck == InitJobCheck /\ [][NextCheck]_vars

\* ------------------------------------------------------------------------
\* C21: CheckEnvInject.

\* The list required_environment_settings parses to, the propertiesContent
\* elements of the document, and the lines of the first one's text.
RequiredSettings ==
    commas_to_list(get(args.ctx.config.parser, args.ctx.config.name,
                       "required_environment_settings"))
PropertiesContent ==
    findall(args.ctx.tree,
            "./properties/EnvInjectJobProperty/info/propertiesContent")
PropertiesLines == split(PropertiesContent[1].s, "\n")

\* The positions of the required settings that are not a line of the text.
MissingSettings ==
    {n \in 1..Len(RequiredSettings) :
        \A k \in 1..Len(PropertiesLines) :
            PropertiesLines[k] # RequiredSettings[n]}

\* C21: CheckEnvInject on a project document returns Skip if
\* required_environment_settings parses to the empty list; otherwise Fail
\* 'Injection unexpectedly unconfigured' without a propertiesContent element,
\* Fail 'Injected properties empty' when the element has no text, Fail
\* 'Did not find <s>' for the first required setting s that is not a line of
\* the text, and Pass when every required setting is a line of the text.
C21_EnvInjectResult ==
    ProjectChecked("CheckEnvInject") =>
        ret = IF RequiredSettings = <<>> THEN CheckResult(SKIP, None)
              ELSE IF PropertiesContent = <<>>
              THEN CheckResult(FAIL,
                       PyStr(<<"I", "n", "j", "e", "c", "t", "i", "o", "n", " ", "u", "n", "e",
                       "x", "p", "e", "c", "t", "e", "d", "l", "y",
                       " ", "u", "n", "c", "o", "n", "f", "i", "g",
                       "u", "r", "e", "d">>))
              ELSE IF PropertiesContent[1] = None
              THEN CheckResult(FAIL, PyStr(<<"I", "n", "j", "e", "c", "t", "e", "d", " ", "p", "r", "o", "p",
                       "e", "r", "t", "i", "e", "s", " ", "e", "m",
                       "p", "t", "y">>))
              ELSE IF MissingSettings # {}
              THEN LET n == CHOOSE n \in MissingSettings :
                                \A h \in MissingSettings : n <= h
                   IN  CheckResult(FAIL, PyStr(<<"D", "i", "d", " ", "n", "o", "t", " ", "f", "i", "n", "d", " ">>
                                               \o RequiredSettings[n]))
              ELSE CheckResult(PASS, None)

\* C21 witness: with required settings 'B=2 ,A=1' and the text 'A=10', 'B=2'
\* the rule failed with 'Did not find A=1'.
C21_Witness ==
    /\ ProjectChecked("CheckEnvInject")
    /\ RequiredSettings = <<<<"B", "=", "2">>, <<"A", "=", "1">>>>
    /\ PropertiesContent = <<PyStr(<<"A", "=", "1", "0", "\n", "B", "=", "2">>)>>
    /\ ret = CheckResult(FAIL, PyStr(<<"D", "i", "d", " ", "n", "o", "t", " ", "f", "i", "n", "d", " ",
        "A", "=", "1">>))

\* ------------------------------------------------------------------------
\* C22: CheckJobReferences.

\* The texts of the document's reference nodes in document order, and the
\* positions of those without text or with a text that is no object name.
ProjectNodes ==
    findall(args.ctx.tree,
            "./builders/hudson.plugins.parameterizedtrigger.TriggerBuilder/configs/*/projects")
BadReferences ==
    {n \in 1..Len(ProjectNodes) :
        \/ ProjectNodes[n] = None
        \/ \A k \in 1..Len(args.ctx.run_ctx.object_names) :
              args.ctx.run_ctx.object_names[k] # ProjectNodes[n].s}

\* What the rule reports for the reference node at position n.
ReferenceFailure(n) ==
    IF ProjectNodes[n] = None
    THEN CheckResult(FAIL, PyStr(<<"N", "o", " ", "r", "e", "f", "e", "r", "e", "n", "c", "e", " ",
        "c", "o", "n", "f", "i", "g", "u", "r", "e", "d">>))
    ELSE CheckResult(FAIL, PyStr(<<"R", "e", "f", "e", "r", "e", "n", "c", "e", " ", "t", "o", " ",
        "m", "i", "s", "s", "i", "n", "g", " ", "o", "b", "j", "e",
        "c", "t", " ">>
                                 \o ProjectNodes[n].s))

\* C22, as claimed: CheckJobReferences on a project document returns Fail if
\* and only if some reference node has no text or a text that is not in
\* object_names, with the detail of the first such node in document order;
\* without such a node (no reference nodes, or known names only) it returns
\* Pass, and what it returns is not Skip.
C22_ReferencesPassNotSkip ==
    ProjectChecked("CheckJobReferences") =>
        IF BadReferences # {}
        THEN \E n \in BadReferences :
                /\ \A h \in BadReferences : n <= h
                /\ ret = ReferenceFailure(n)
        ELSE /\ ret = CheckResult(PASS, None)
             /\ ret.result # SKIP

\* ------------------------------------------------------------------------
\* C24: the three outcomes.

\* C24, as claimed: Pass, Fail and Skip are three pairwise distinct values,
\* so the result check() returns is never Skip and Pass at once, and Fail is
\* the only one of the three that counts as failing.
C24_ThreeDistinctOutcomes ==
    (Returned /\ ret.result \notin Exceptions) =>
        /\ ret.result \in {PASS, FAIL, SKIP}
        /\ Cardinality({PASS, FAIL, SKIP}) = 3
        /\ ~(ret.result = SKIP /\ ret.result = PASS)
        /\ ~result_value(ret.result) <=> ret.result = FAIL

\* ------------------------------------------------------------------------
\* C23: the run context of a batch.

\* C23: every rule instantiated for a document of a batch, whatever the
\* document's position, is given a run context whose object_names is the
\* whole list of names of the batch; the list is bound once, before the first
\* document is parsed, and never changes afterwards.
C23_RunContextHasWholeBatch ==
    /\ [](\A i \in DOMAIN calls :
            calls[i].ctx.run_ctx = [object_names |-> object_names])
    /\ [][object_names' # object_names =>
            pc = "list" /\ job = 0 /\ results = <<>>]_vars

\* C23 witness: the first document of a batch of at least two refers to the
\* second one, 'b', which is not parsed yet, and CheckJobReferences passed
\* it.
C23_Witness ==
    /\ pc = "lint"
    /\ job = 1
    /\ Len(object_names) >= 2
    /\ tree.elements["./builders/hudson.plugins.parameterizedtrigger.TriggerBuilder/configs/*/projects"]
           = <<PyStr(object_names[2])>>
    /\ \E i \in DOMAIN calls :
          /\ LINTERS[calls[i].linter].plugin = "CheckJobReferences"
          /\ calls[i].ret = CheckResult(PASS, None)

\* ------------------------------------------------------------------------
\* C25: the rules one lint_job_xml call instantiates.

\* The LintContext the claim gives the rule at position k of the registry:
\* the section 'job_linter:<name>' of the effective configuration, the run
\* context of the batch and the document of the call.
ClaimedContext(k) ==
    [config |-> [parser |-> filtered_config,
                 name |-> JOB_LINTER \o <<":">> \o LINTERS[k].name],
     run_ctx |-> [object_names |-> object_names],
     tree |-> tree]

\* C25: in one lint_job_xml call no rule is instantiated twice, every rule
\* that is instantiated passes both filters and is given the claimed context,
\* and when the call returns every rule that passes both filters has been
\* instantiated and checked; the effective configuration has the section
\* 'job_linter:<name>' of every registered rule.
C25_EachUnfilteredRuleCheckedOnce ==
    /\ \A i, j \in DOMAIN calls : calls[i].linter = calls[j].linter => i = j
    /\ \A i \in DOMAIN calls :
          /\ PassesFilters(calls[i].linter)
          /\ calls[i].ctx = ClaimedContext(calls[i].linter)
    /\ JobReturned =>
          \A k \in DOMAIN LINTERS : PassesFilters(k) => Ran(k)
    /\ Filtered =>
          \A k \in DOMAIN LINTERS :
              JOB_LINTER \o <<":">> \o LINTERS[k].name
                  \in sections(filtered_config)

\* C25 witness: a call on the second document of a batch returned after it
\* instantiated the second rule of the registry only, the first one being
\* filtered out.
C25_Witness ==
    /\ JobReturned
    /\ job = 2
    /\ Len(LINTERS) = 2
    /\ ~PassesFilters(1)
    /\ Len(calls) = 1
    /\ calls[1].linter = 2
    /\ calls[1].ctx = ClaimedContext(2)

\* ------------------------------------------------------------------------
\* C26: no short circuit, and the order of the output.

\* C26: when a lint_job_xml call returns, every unfiltered rule registered
\* after a rule that failed has been checked too; when the batch function
\* returns, every document of the batch has been linted once, failed
\* documents before it or not; rules are checked in registration order and
\* documents are taken in batch order; and a step prints nothing or appends,
\* after the lines printed so far, the one failure line of the document and
\* rule it has just checked, which the document's name, the rule and the
\* check's result determine.
C26_NoShortCircuitAndOrder ==
    /\ [](JobReturned =>
            \A i \in DOMAIN calls :
                calls[i].ret.result = FAIL =>
                    \A k \in DOMAIN LINTERS :
                        (k > calls[i].linter /\ PassesFilters(k)) => Ran(k))
    /\ [](pc = "lint" => Len(results) = job - 1)
    /\ [](pc \in {"loop", "done"} => Len(results) = job)
    /\ [](pc = "done" => job = Len(object_names))
    /\ [](\A i, j \in DOMAIN calls :
            i < j => calls[i].linter < calls[j].linter)
    /\ [][/\ job' \in {job, job + 1}
          /\ output' # output =>
                /\ pc = "lint"
                /\ job' = job
                /\ calls' = Append(calls, calls'[Len(calls')])
                /\ calls'[Len(calls')].linter = linter + 1
                /\ calls'[Len(calls')].ret.result = FAIL
                /\ output' =
                      Append(output,
                             failure_line(object_names[job],
                                          LINTERS[linter + 1].plugin,
                                          calls'[Len(calls')].ret.text))]_vars

\* C26 witness: the batch function returned after two documents that both
\* failed; in the second one the first rule failed and the second rule was
\* still checked; the first line printed is of document 'a' and the last of
\* document 'b'.
C26_Witness ==
    /\ pc = "done"
    /\ results = <<FALSE, FALSE>>
    /\ Len(calls) = 2
    /\ calls[1].ret.result = FAIL
    /\ Len(output) >= 2
    /\ startswith(output[1], object_names[1] \o <<":">>)
    /\ startswith(output[Len(output)], object_names[2] \o <<":">>)

\* ------------------------------------------------------------------------
\* C27: documents that cannot be parsed.

\* C27: when the for loop of a batch function takes a name, either its
\* document is parsed and lint_job_xml is entered with it, or the parse
\* raises: then lint_job_xml is not entered, nothing is printed or recorded
\* for the document, and every earlier document that failed has its failure
\* line printed already.  Nothing happens after an exception was raised: no
\* later document is linted and the batch function returns no value.
C27_ParseErrorPropagates ==
    /\ [][job' = job + 1 =>
            \/ pc' = "lint" /\ tree' \in Trees /\ calls' = <<>>
            \/ /\ pc' = "raised"
               /\ UNCHANGED <<tree, linter, job_success, calls, results,
                              success, output>>
               /\ \A i \in DOMAIN results :
                     ~results[i] =>
                         \E l \in DOMAIN output :
                             startswith(output[l],
                                        object_names[i] \o <<":">>)]_vars
    /\ [][pc # "raised"]_vars
    /\ [](pc = "done" => Len(results) = Len(object_names))

\* C27 witness: the second document of a batch could not be parsed; the first
\* one had failed, its line is printed, and the run ended with the exception.
C27_Witness ==
    /\ pc = "raised"
    /\ job = 2
    /\ results = <<FALSE>>
    /\ calls # <<>>
    /\ \A i \in DOMAIN calls : calls[i].ret.result \notin Exceptions
    /\ linter = Len(LINTERS)
    /\ startswith(output[1], object_names[1] \o <<":">>)

\* ------------------------------------------------------------------------
\* C28: the filter lists of the default configuration.

\* C28, as claimed: from an empty caller's configuration and the global
\* defaults of the source, getlist returns the empty list for
\* disable_linters and the empty list for only_run.
C28_DefaultListsAreEmpty ==
    (Filtered /\ EmptyConfig /\ config_defaults = GLOBAL_CONFIG_DEFAULTS) =>
        /\ getlist(filtered_config, JOB_LINTER, "disable_linters")
               = PyList(<<>>)
        /\ getlist(filtered_config, JOB_LINTER, "only_run") = PyList(<<>>)

\* ------------------------------------------------------------------------
\* C29: check() is total.

\* C29, as claimed: for every document and every effective configuration
\* that _filter_config builds from a caller's configuration, check() of a
\* rule returns one of Pass, Fail and Skip and does not raise.
C29_CheckNeverRaises ==
    Returned =>
        /\ ret.result \notin Exceptions
        /\ ret.result \in {PASS, FAIL, SKIP}

\* ------------------------------------------------------------------------
\* C30: the steps of LintSubCommand.execute.

\* The batch function of the process is running or has returned.
Linting == pc \in {"start", "list", "loop", "lint", "done"}

\* C30: in a process that runs LintSubCommand.execute, the parent's execute
\* and lint_jobs_from_directory are each called at most once; the parent's
\* execute is called with config_xml false and output_dir the temporary
\* directory, and with execute's jjb_config; lint_jobs_from_directory is
\* called with that same temporary directory and jjb_config.config_parser;
\* while the batch function runs the parent's execute has been called, once,
\* and has returned; and the process exits with the batch's exit code only
\* after both calls were made, once each.
C30_ExecuteStepsInOrder ==
    subcommand # None =>
        LET compiled == subcommand.super_execute
            linted == subcommand.lint_jobs_from_directory
        IN  /\ Len(compiled) <= 1
            /\ Len(linted) <= 1
            /\ Len(compiled) = 1 =>
                  /\ subcommand.tmpdir # None
                  /\ compiled[1] =
                        [options |-> [config_xml |-> PyBool(FALSE),
                                      output_dir |-> subcommand.tmpdir],
                         jjb_config |-> subcommand.jjb_config]
            /\ Len(linted) = 1 =>
                  /\ Len(compiled) = 1
                  /\ linted[1] =
                        [compiled_job_directory |-> subcommand.tmpdir,
                         config |-> subcommand.jjb_config.config_parser]
            /\ Linting =>
                  /\ Len(compiled) = 1
                  /\ Len(linted) = 1
                  /\ config = subcommand.jjb_config.config_parser
                  /\ exit_code = None
            /\ (Exited /\ BatchReturned) =>
                  /\ Len(compiled) = 1
                  /\ Len(linted) = 1
            /\ Exited => Len(compiled) = 1

\* C30 witness: the process exited with code 1 after execute replaced the
\* options config_xml = True and output_dir = 'out', compiled to 'tmp2' and
\* linted two documents there.
C30_Witness ==
    /\ subcommand # None
    /\ Exited
    /\ BatchReturned
    /\ exit_code = 1
    /\ Len(results) = 2
    /\ subcommand.tmpdir = PyStr(<<"t", "m", "p", "2">>)
    /\ subcommand.options =
          [config_xml |-> PyBool(FALSE), output_dir |-> PyStr(<<"t", "m", "p", "2">>)]
    /\ Len(subcommand.super_execute) = 1
    /\ subcommand.lint_jobs_from_directory[1].compiled_job_directory
           = PyStr(<<"t", "m", "p", "2">>)

====
